---------------------------- MODULE Spec2Model ----------------------------
(***************************************************************************)
(* A model of loz.watch: the local-incident classifier, the client         *)
(* fetchers, the scraper endpoints and the Map / StatusBar components.     *)
(* JavaScript strings are TLA+ strings (TLC evaluates Len, \o and SubSeq   *)
(* on them), so toLowerCase, includes, trim and startsWith are computed    *)
(* character by character as the code computes them.                       *)
(***************************************************************************)
EXTENDS Integers, Sequences, FiniteSets, TLC

VARIABLES
  \* ---- classifier (lib/local-intelligence.ts) ----
  clsInput,      \* the (type, title, summary) last given to the classifier
  clsCategory,   \* normalizeIncidentType's result for clsInput
  clsSeverity,   \* determineIncidentSeverity's result for clsInput
  \* ---- one call of a client fetcher ----
  fxCall,        \* the fetcher called and what its requests come back with
  fxResult,      \* the promise the fetcher returned: pending, resolved, rejected
  tzOffset,      \* the local time zone, in minutes behind UTC
  \* ---- one request to a scraper endpoint ----
  apiCall,       \* the endpoint requested and what its upstream requests give
  apiResponse,   \* the HTTP response of the endpoint (status 0: none yet)
  \* ---- a component with data-loading effects: Map or StatusBar ----
  component,     \* which of the two the instance is
  phase,         \* "created", "mounted" or "unmounted"
  intervals,     \* the load functions whose setInterval timer is active
  requests,      \* the fetcher calls in flight
  settledParts,  \* results Promise.all holds while its other promise is pending
  display,       \* per state slot, the load cycle it shows and that load's outcome
  started,       \* per load function, how many times it has been called
  ticks,         \* interval ticks so far
  \* ---- Map: the three detail panels ----
  selectedLocation, isPanelOpen,
  selectedIncident, isIncidentPanelOpen,
  selectedLocalIncident, isLocalIncidentPanelOpen,
  closeTimeouts, \* per panel, the pending setTimeout(..., 300) callbacks
  bodyPanelOpen, \* document.body carries the class 'panel-open'
  \* ---- Map: search and filters ----
  searchQuery, activeTypes, showTrafficIncidents, showLocalIncidents,
  \* ---- what a render of the component reads and computes ----
  slotValues,    \* the lists in the data slots (tracked where a render is modelled)
  conditionData, \* StatusBar: the conditionData memo, <<>> before it is computed
  \* ---- lib/sanitize.ts: a string passed through a sanitizer ----
  szInput,       \* the string given
  szMaxLength,   \* the maxLength given with it (truncateText only)
  szOutput       \* the results of the successive applications, oldest first

clsVars == <<clsInput, clsCategory, clsSeverity>>

szVars == <<szInput, szMaxLength, szOutput>>

fxVars == <<fxCall, fxResult, tzOffset>>

apiVars == <<apiCall, apiResponse>>

lifeVars == <<component, phase, intervals>>

pollVars == <<requests, settledParts, display, started, ticks>>

selectionVars == <<selectedLocation, isPanelOpen, selectedIncident, isIncidentPanelOpen,
                   selectedLocalIncident, isLocalIncidentPanelOpen, closeTimeouts>>

panelVars == <<selectionVars, bodyPanelOpen>>

filterVars == <<searchQuery, activeTypes, showTrafficIncidents, showLocalIncidents>>

renderVars == <<slotValues, conditionData>>

viewVars == <<filterVars, renderVars>>

uiVars == <<lifeVars, pollVars, panelVars, viewVars>>

vars == <<clsInput, clsCategory, clsSeverity, fxCall, fxResult, tzOffset, apiCall, apiResponse,
          component, phase, intervals, requests, settledParts, display, started, ticks,
          selectedLocation, isPanelOpen, selectedIncident, isIncidentPanelOpen,
          selectedLocalIncident, isLocalIncidentPanelOpen, closeTimeouts, bodyPanelOpen,
          searchQuery, activeTypes, showTrafficIncidents, showLocalIncidents,
          slotValues, conditionData, szInput, szMaxLength, szOutput>>

NULL == "null"

(***************************************************************************)
(* String.prototype operations                                             *)
(***************************************************************************)
UpperChars == "ABCDEFGHIJKLMNOPQRSTUVWXYZ"
LowerChars == "abcdefghijklmnopqrstuvwxyz"

CharAt(s, i) == SubSeq(s, i, i)

ToLowerChar(c) ==
  IF \E i \in 1..Len(UpperChars) : CharAt(UpperChars, i) = c
    THEN CharAt(LowerChars, CHOOSE i \in 1..Len(UpperChars) : CharAt(UpperChars, i) = c)
    ELSE c

RECURSIVE ToLowerCase(_)
ToLowerCase(s) ==
  IF Len(s) = 0 THEN ""
  ELSE ToLowerChar(CharAt(s, 1)) \o ToLowerCase(SubSeq(s, 2, Len(s)))

\* s.includes(k)
Includes(s, k) ==
  \E i \in 1..(Len(s) - Len(k) + 1) : SubSeq(s, i, i + Len(k) - 1) = k

\* s.startsWith(k)
StartsWith(s, k) == Len(s) >= Len(k) /\ SubSeq(s, 1, Len(k)) = k

IsSpace(c) == c \in {" ", "\t", "\n"}

RECURSIVE TrimStart(_)
TrimStart(s) ==
  IF Len(s) > 0 /\ IsSpace(CharAt(s, 1)) THEN TrimStart(SubSeq(s, 2, Len(s))) ELSE s

RECURSIVE TrimEnd(_)
TrimEnd(s) ==
  IF Len(s) > 0 /\ IsSpace(CharAt(s, Len(s))) THEN TrimEnd(SubSeq(s, 1, Len(s) - 1)) ELSE s

\* s.trim()
Trim(s) == TrimEnd(TrimStart(s))

(***************************************************************************)
(* lib/local-intelligence.ts: category and severity                        *)
(***************************************************************************)
IncidentCategory == {"crime", "accident", "boating", "fire", "advisory", "other"}
IncidentSeverity == {"info", "advisory", "alert"}

\* `${type} ${title} ${summary || ''}`.toLowerCase()
ClassifierText(type, title, summary) ==
  ToLowerCase(type \o " " \o title \o " " \o summary)

NormalizeFireFirst(type, title, summary) ==
  LET text == ClassifierText(type, title, summary) IN
  IF Includes(text, "fire") \/ Includes(text, "blaze") \/ Includes(text, "burn")
    THEN "fire"
  ELSE IF Includes(text, "boat") \/ Includes(text, "marine") \/ Includes(text, "watercraft")
    THEN "boating"
  ELSE IF Includes(text, "accident") \/ Includes(text, "crash") \/ Includes(text, "collision")
    THEN "accident"
  ELSE IF Includes(text, "crime") \/ Includes(text, "arrest") \/ Includes(text, "theft")
          \/ Includes(text, "police")
    THEN "crime"
  ELSE IF Includes(text, "advisory") \/ Includes(text, "warning") \/ Includes(text, "alert")
    THEN "advisory"
  ELSE "other"

normalizeIncidentType(type, title, summary) ==
  LET text == ClassifierText(type, title, summary) IN
  IF Includes(text, "boat") \/ Includes(text, "marine") \/ Includes(text, "watercraft")
    THEN "boating"
  ELSE IF Includes(text, "fire") \/ Includes(text, "blaze") \/ Includes(text, "burn")
    THEN "fire"
  ELSE IF Includes(text, "accident") \/ Includes(text, "crash") \/ Includes(text, "collision")
    THEN "accident"
  ELSE IF Includes(text, "crime") \/ Includes(text, "arrest") \/ Includes(text, "theft")
          \/ Includes(text, "police")
    THEN "crime"
  ELSE IF Includes(text, "advisory") \/ Includes(text, "warning") \/ Includes(text, "alert")
    THEN "advisory"
  ELSE "other"

SeverityAccidentAlwaysAlert(type, title, summary) ==
  IF type = "fire" \/ type = "accident" THEN "alert"
  ELSE IF type = "boating" \/ type = "crime" THEN "advisory"
  ELSE IF type = "advisory" THEN "advisory"
  ELSE "info"

determineIncidentSeverity(type, title, summary) ==
  LET text == ToLowerCase(title \o " " \o summary) IN
  IF type = "fire"
     \/ (type = "accident" /\ (Includes(text, "fatal") \/ Includes(text, "serious")))
    THEN "alert"
  ELSE IF type = "boating" \/ type = "crime" THEN "advisory"
  ELSE IF type = "accident" \/ type = "advisory" THEN "advisory"
  ELSE "info"

(***************************************************************************)
(* Date: new Date(string).getTime().  Times are in minutes since the epoch *)
(* (TLC's integers are 32 bits wide; every time token of the model has     *)
(* zero seconds and milliseconds).  Only the three shapes the scrapers     *)
(* emit are parsed: "YYYY-MM-DD" (UTC), "YYYY-MM-DDTHH:MM:SS.sssZ" (UTC)   *)
(* and "M/D/YYYY" (local time); anything else is an Invalid Date.          *)
(***************************************************************************)
\* A time value: a number of minutes, or NaN (an Invalid Date).
NaN == [nan |-> TRUE, t |-> 0]

TimeValue(n) == [nan |-> FALSE, t |-> n]

IsNaN(v) == v.nan

Digits == "0123456789"

IsDigit(c) == \E i \in 1..Len(Digits) : CharAt(Digits, i) = c

DigitValue(c) == (CHOOSE i \in 1..Len(Digits) : CharAt(Digits, i) = c) - 1

AllDigits(s) == Len(s) > 0 /\ \A i \in 1..Len(s) : IsDigit(CharAt(s, i))

RECURSIVE ParseDigits(_)
ParseDigits(s) ==
  IF Len(s) = 0 THEN 0
  ELSE 10 * ParseDigits(SubSeq(s, 1, Len(s) - 1)) + DigitValue(CharAt(s, Len(s)))

\* Days from 1970-01-01 to the civil date y-m-d (proleptic Gregorian).
DaysFromCivil(y, m, d) ==
  LET yy  == IF m <= 2 THEN y - 1 ELSE y
      era == yy \div 400
      yoe == yy - era * 400
      mp  == IF m > 2 THEN m - 3 ELSE m + 9
      doy == (153 * mp + 2) \div 5 + d - 1
      doe == yoe * 365 + yoe \div 4 - yoe \div 100 + doy
  IN era * 146097 + doe - 719468

MinutesPerDay == 24 * 60

\* A month outside 1..12 or a day outside 1..31 is an Invalid Date; a day past
\* the month's end (Feb 30) rolls over to the next month.
CivilMinutes(y, m, d) ==
  IF m < 1 \/ m > 12 \/ d < 1 \/ d > 31 THEN NaN
  ELSE TimeValue((DaysFromCivil(y, m, 1) + d - 1) * MinutesPerDay)

IsIsoDate(s) ==
  /\ Len(s) = 10
  /\ CharAt(s, 5) = "-" /\ CharAt(s, 8) = "-"
  /\ AllDigits(SubSeq(s, 1, 4)) /\ AllDigits(SubSeq(s, 6, 7)) /\ AllDigits(SubSeq(s, 9, 10))

IsIsoDateTime(s) ==
  /\ Len(s) = 24
  /\ IsIsoDate(SubSeq(s, 1, 10))
  /\ CharAt(s, 11) = "T" /\ CharAt(s, 14) = ":" /\ CharAt(s, 17) = ":"
  /\ CharAt(s, 20) = "." /\ CharAt(s, 24) = "Z"
  /\ AllDigits(SubSeq(s, 12, 13)) /\ AllDigits(SubSeq(s, 15, 16))
  /\ AllDigits(SubSeq(s, 18, 19)) /\ AllDigits(SubSeq(s, 21, 23))

\* The positions of "/" in s.
SlashPositions(s) == {i \in 1..Len(s) : CharAt(s, i) = "/"}

IsSlashDate(s) ==
  /\ Cardinality(SlashPositions(s)) = 2
  /\ LET p1 == CHOOSE i \in SlashPositions(s) : \A j \in SlashPositions(s) : i <= j
         p2 == CHOOSE i \in SlashPositions(s) : \A j \in SlashPositions(s) : i >= j
     IN /\ AllDigits(SubSeq(s, 1, p1 - 1)) /\ p1 - 1 <= 2
        /\ AllDigits(SubSeq(s, p1 + 1, p2 - 1)) /\ p2 - p1 - 1 <= 2
        /\ AllDigits(SubSeq(s, p2 + 1, Len(s))) /\ Len(s) - p2 = 4

\* new Date(s).getTime(), with the local zone tz minutes behind UTC
DateParse(s, tz) ==
  IF IsIsoDate(s)
    THEN CivilMinutes(ParseDigits(SubSeq(s, 1, 4)), ParseDigits(SubSeq(s, 6, 7)),
                      ParseDigits(SubSeq(s, 9, 10)))
  ELSE IF IsIsoDateTime(s)
    THEN LET day == CivilMinutes(ParseDigits(SubSeq(s, 1, 4)), ParseDigits(SubSeq(s, 6, 7)),
                                 ParseDigits(SubSeq(s, 9, 10)))
             hh  == ParseDigits(SubSeq(s, 12, 13))
             mm  == ParseDigits(SubSeq(s, 15, 16))
         IN IF IsNaN(day) \/ hh > 23 \/ mm > 59 THEN NaN ELSE TimeValue(day.t + hh * 60 + mm)
  ELSE IF IsSlashDate(s)
    THEN LET p1 == CHOOSE i \in SlashPositions(s) : \A j \in SlashPositions(s) : i <= j
             p2 == CHOOSE i \in SlashPositions(s) : \A j \in SlashPositions(s) : i >= j
             day == CivilMinutes(ParseDigits(SubSeq(s, p2 + 1, Len(s))),
                                 ParseDigits(SubSeq(s, 1, p1 - 1)),
                                 ParseDigits(SubSeq(s, p1 + 1, p2 - 1)))
         IN IF IsNaN(day) THEN NaN ELSE TimeValue(day.t + tz)
  ELSE NaN

\* The comparator (a, b) => new Date(b).getTime() - new Date(a).getTime();
\* a NaN result counts as 0 in Array.prototype.sort.
NewestFirstCompare(ta, tb) == IF IsNaN(ta) \/ IsNaN(tb) THEN 0 ELSE tb.t - ta.t

\* Array.prototype.sort is stable: an element moves left past exactly the
\* elements the comparator puts after it (insertion from the right).
\* field names the date string the comparator reads from an element.
RECURSIVE InsertByTime(_, _, _, _)
InsertByTime(sorted, x, field, tz) ==
  IF Len(sorted) = 0 THEN <<x>>
  ELSE IF NewestFirstCompare(DateParse(sorted[Len(sorted)][field], tz),
                             DateParse(x[field], tz)) > 0
    THEN Append(InsertByTime(SubSeq(sorted, 1, Len(sorted) - 1), x, field, tz),
                sorted[Len(sorted)])
    ELSE Append(sorted, x)

RECURSIVE SortNewestFirst(_, _, _)
SortNewestFirst(items, field, tz) ==
  IF Len(items) = 0 THEN <<>>
  ELSE InsertByTime(SortNewestFirst(SubSeq(items, 1, Len(items) - 1), field, tz),
                    items[Len(items)], field, tz)

(***************************************************************************)
(* What a fetch() of the client can come back with.  settled is the state  *)
(* of the promise (Promise.allSettled), ok is response.ok, kind is what    *)
(* response.json() gives: a throw ("unparseable"), null, an object without *)
(* the list, or an object with the list items.                             *)
(***************************************************************************)
RejectedResponse == [settled |-> "rejected", ok |-> FALSE, kind |-> "none", items |-> <<>>]

Non2xxResponse == [settled |-> "fulfilled", ok |-> FALSE, kind |-> "none", items |-> <<>>]

OkResponse(kind, items) == [settled |-> "fulfilled", ok |-> TRUE, kind |-> kind, items |-> items]

\* await response.json() throws
JsonThrows(resp) == resp.kind = "unparseable"

\* data.articles / data.features / data.elements throws a TypeError on null
FieldReadThrows(resp) == resp.kind = "null"

\* The outcome of a function body inside try { } catch { }.
Returned(v) == [threw |-> FALSE, value |-> v]

Threw == [threw |-> TRUE, value |-> <<>>]

\* The promise an async function returns.
Resolved(v) == [state |-> "resolved", value |-> v]

RejectedPromise == [state |-> "rejected", value |-> <<>>]

PropagateThrow(outcome, fallback) ==
  IF outcome.threw THEN RejectedPromise ELSE Resolved(outcome.value)

\* try { body } catch (error) { return fallback }
TryCatch(outcome, fallback) ==
  IF outcome.threw THEN Resolved(fallback) ELSE Resolved(outcome.value)

(***************************************************************************)
(* lib/local-intelligence.ts: fetchLocalIncidents                          *)
(* Coordinates are in millionths of a degree.                              *)
(***************************************************************************)
IndexIn(chars, c) == CHOOSE i \in 1..Len(chars) : CharAt(chars, i) = c

\* ASCII from " " (32) to "/" (47) without the quote characters, and ":" (58)
Punctuation == <<" ", "!", "#", "$", "%", "&", "(", ")", "*", "+", ",", "-", ".", "/", ":", "_">>
PunctuationCodes == <<32, 33, 35, 36, 37, 38, 40, 41, 42, 43, 44, 45, 46, 47, 58, 95>>

\* c.charCodeAt(0), for the characters the ids of the model are made of
CharCodeAt(c) ==
  IF IsDigit(c) THEN 47 + IndexIn(Digits, c)
  ELSE IF \E i \in 1..Len(UpperChars) : CharAt(UpperChars, i) = c THEN 64 + IndexIn(UpperChars, c)
  ELSE IF \E i \in 1..Len(LowerChars) : CharAt(LowerChars, i) = c THEN 96 + IndexIn(LowerChars, c)
  ELSE PunctuationCodes[CHOOSE i \in 1..Len(Punctuation) : Punctuation[i] = c]

\* id.split('').reduce((acc, char) => acc + char.charCodeAt(0), 0)
RECURSIVE CharCodeSum(_)
CharCodeSum(s) ==
  IF Len(s) = 0 THEN 0
  ELSE CharCodeSum(SubSeq(s, 1, Len(s) - 1)) + CharCodeAt(CharAt(s, Len(s)))

LakeCenterLat == 38150000
LakeCenterLng == -92750000

\* The else-if chain of place names, in order: <<names, lat, lng>>.
PlaceRules ==
  << <<{"camdenton"}, 38200000, -92750000>>,
     <<{"eldon"}, 38350000, -92580000>>,
     <<{"osage beach", "osage"}, 38130000, -92650000>>,
     <<{"sunrise beach"}, 38180000, -92780000>>,
     <<{"lake ozark", "bagnell"}, 38200000, -92630000>>,
     <<{"versailles"}, 38430000, -92840000>>,
     <<{"linn creek"}, 38030000, -92700000>>,
     <<{"gravois mills"}, 38200000, -92830000>>,
     <<{"laurie"}, 38200000, -92830000>>,
     <<{"four seasons"}, 38200000, -92700000>>,
     <<{"miller county", "miller"}, 38200000, -92600000>>,
     <<{"camden county", "camden"}, 38150000, -92750000>>,
     <<{"morgan county", "morgan"}, 38430000, -92840000>>,
     <<{"highway 54", "hwy 54", "hwy54"}, 38200000, -92750000>>,
     <<{"highway 5", "hwy 5", "hwy5"}, 38150000, -92700000>> >>

MatchingPlaceRules(text) ==
  {i \in 1..Len(PlaceRules) : \E name \in PlaceRules[i][1] : Includes(text, name)}

\* spread = 0.25 degrees; ((hash % 200) - 100) / 400 * spread, in millionths
SpreadStep == 625

HashLatOffset(hash) == ((hash % 200) - 100) * SpreadStep

\* The longitude offset without the reduction modulo 200.
HashLngOffsetUnreduced(hash) == ((hash * 13) - 100) * SpreadStep

HashLngOffset(hash) == (((hash * 13) % 200) - 100) * SpreadStep

\* lat and lng of a Lake Expo article
ArticleCoordinates(article) ==
  LET text == ToLowerCase(article.title \o " " \o article.summary)
      hits == MatchingPlaceRules(text)
  IN IF hits # {}
       THEN LET first == CHOOSE i \in hits : \A j \in hits : i <= j
            IN [lat |-> PlaceRules[first][2], lng |-> PlaceRules[first][3]]
       ELSE LET hash == CharCodeSum(article.id)
            IN [lat |-> LakeCenterLat + HashLatOffset(hash),
                lng |-> LakeCenterLng + HashLngOffset(hash)]

RetentionMinutes == 30 * MinutesPerDay

\* The date test with the window of sevenDaysAgo, which the loop never reads.
SkippedByWeek(publishedAt, now, tz) ==
  LET date == DateParse(publishedAt, tz) IN
  IsNaN(date) \/ date.t < now - 7 * MinutesPerDay

\* The date test of the loop body: new Date(publishedAt) is kept unless it is
\* invalid or before now - 30 days.  (new Date(string) never throws, so the
\* catch branch of the source is never taken.)
SkippedByDate(publishedAt, now, tz) ==
  LET date == DateParse(publishedAt, tz) IN
  IsNaN(date) \/ date.t < now - RetentionMinutes

LocalIncident(item, source, lat, lng) ==
  LET type == normalizeIncidentType("", item.title, item.summary) IN
  [id |-> item.id, title |-> item.title, type |-> type,
   severity |-> determineIncidentSeverity(type, item.title, item.summary),
   source |-> source, sourceUrl |-> item.url, timestamp |-> item.publishedAt,
   lat |-> lat, lng |-> lng, summary |-> item.summary]

\* for (const article of data.articles) { ... incidents.push(...) }
RECURSIVE ExpoIncidents(_, _, _)
ExpoIncidents(articles, now, tz) ==
  IF Len(articles) = 0 THEN <<>>
  ELSE LET article == Head(articles)
           rest == ExpoIncidents(Tail(articles), now, tz)
       IN IF SkippedByDate(article.publishedAt, now, tz) THEN rest
          ELSE <<LocalIncident(article, "Lake Expo", ArticleCoordinates(article).lat,
                               ArticleCoordinates(article).lng)>> \o rest

CityLat == 38200000
CityLng == -92630000

\* for (const announcement of data.announcements) { ... incidents.push(...) }
RECURSIVE CityIncidents(_, _, _)
CityIncidents(announcements, now, tz) ==
  IF Len(announcements) = 0 THEN <<>>
  ELSE LET announcement == Head(announcements)
           rest == CityIncidents(Tail(announcements), now, tz)
       IN IF SkippedByDate(announcement.publishedAt, now, tz) THEN rest
          ELSE <<LocalIncident(announcement, "City of Lake Ozark", CityLat, CityLng)>> \o rest

\* status === 'fulfilled' && value.ok
IsProcessed(resp) == resp.settled = "fulfilled" /\ resp.ok

\* The body of the try block of fetchLocalIncidents.
LocalIncidentsBody(expo, city, now, tz) ==
  IF IsProcessed(expo) /\ (JsonThrows(expo) \/ FieldReadThrows(expo)) THEN Threw
  ELSE IF IsProcessed(city) /\ (JsonThrows(city) \/ FieldReadThrows(city)) THEN Threw
  ELSE LET fromExpo == IF IsProcessed(expo) /\ expo.kind = "list"
                         THEN ExpoIncidents(expo.items, now, tz) ELSE <<>>
           fromCity == IF IsProcessed(city) /\ city.kind = "list"
                         THEN CityIncidents(city.items, now, tz) ELSE <<>>
       IN Returned(SortNewestFirst(fromExpo \o fromCity, "timestamp", tz))

FetchLocalIncidentsUncaught(expo, city, now, tz) ==
  PropagateThrow(LocalIncidentsBody(expo, city, now, tz), <<>>)

fetchLocalIncidents(expo, city, now, tz) ==
  TryCatch(LocalIncidentsBody(expo, city, now, tz), <<>>)

(***************************************************************************)
(* lib/local-intelligence.ts: fetchTopStory                                *)
(***************************************************************************)
TopStory(item, source) ==
  [id |-> item.id, headline |-> item.title, summary |-> item.summary,
   source |-> source, sourceUrl |-> item.url, timestamp |-> item.publishedAt]

\* The body of the try block of fetchTopStory.  The result TopStory | null is
\* a sequence of at most one story: null is <<>>.
TopStoryBody(expo, city, tz) ==
  IF IsProcessed(expo) /\ (JsonThrows(expo) \/ FieldReadThrows(expo)) THEN Threw
  ELSE IF IsProcessed(city) /\ (JsonThrows(city) \/ FieldReadThrows(city)) THEN Threw
  ELSE LET fromExpo == IF IsProcessed(expo) /\ expo.kind = "list" /\ Len(expo.items) > 0
                         THEN <<TopStory(expo.items[1], "Lake Expo")>> ELSE <<>>
           fromCity == IF IsProcessed(city) /\ city.kind = "list" /\ Len(city.items) > 0
                         THEN <<TopStory(city.items[1], "City of Lake Ozark")>> ELSE <<>>
           stories == fromExpo \o fromCity
       IN IF Len(stories) = 0 THEN Returned(<<>>)
          ELSE Returned(<<SortNewestFirst(stories, "timestamp", tz)[1]>>)

fetchTopStory(expo, city, tz) == TryCatch(TopStoryBody(expo, city, tz), <<>>)

(***************************************************************************)
(* Number and Date formatting                                              *)
(***************************************************************************)
\* String(n) for n >= 0
RECURSIVE NumberToString(_)
NumberToString(n) ==
  IF n < 10 THEN CharAt(Digits, n + 1)
  ELSE NumberToString(n \div 10) \o CharAt(Digits, (n % 10) + 1)

\* n as at least width digits, zero-padded on the left
RECURSIVE PadZero(_, _)
PadZero(n, width) ==
  IF Len(NumberToString(n)) >= width THEN NumberToString(n)
  ELSE "0" \o PadZero(n, width - 1)

\* The civil date of a day number (the inverse of DaysFromCivil).
CivilFromDays(days) ==
  LET z   == days + 719468
      era == z \div 146097
      doe == z - era * 146097
      yoe == (doe - doe \div 1460 + doe \div 36524 - doe \div 146096) \div 365
      doy == doe - (365 * yoe + yoe \div 4 - yoe \div 100)
      mp  == (5 * doy + 2) \div 153
      d   == doy - (153 * mp + 2) \div 5 + 1
      m   == IF mp < 10 THEN mp + 3 ELSE mp - 9
      y   == yoe + era * 400 + (IF m <= 2 THEN 1 ELSE 0)
  IN [y |-> y, m |-> m, d |-> d]

\* new Date(minutes).toISOString()
ToISOString(minutes) ==
  LET civil == CivilFromDays(minutes \div MinutesPerDay)
      inDay == minutes % MinutesPerDay
  IN PadZero(civil.y, 4) \o "-" \o PadZero(civil.m, 2) \o "-" \o PadZero(civil.d, 2)
     \o "T" \o PadZero(inDay \div 60, 2) \o ":" \o PadZero(inDay % 60, 2) \o ":00.000Z"

(***************************************************************************)
(* lib/traffic-incidents.ts                                                *)
(***************************************************************************)
LAKE_AREA_BOUNDS == [north |-> 38500000, south |-> 37950000, east |-> -92500000, west |-> -93000000]

\* A bounds test that leaves the northern edge out.
IsWithinLakeAreaNoNorth(lat, lng) ==
  /\ lat >= LAKE_AREA_BOUNDS.south
  /\ lng >= LAKE_AREA_BOUNDS.west
  /\ lng <= LAKE_AREA_BOUNDS.east

isWithinLakeArea(lat, lng) ==
  /\ lat >= LAKE_AREA_BOUNDS.south
  /\ lat <= LAKE_AREA_BOUNDS.north
  /\ lng >= LAKE_AREA_BOUNDS.west
  /\ lng <= LAKE_AREA_BOUNDS.east

\* normalizeIncidentType of traffic-incidents.ts (one argument)
normalizeTrafficType(type) ==
  LET typeLower == ToLowerCase(type) IN
  IF Includes(typeLower, "accident") \/ Includes(typeLower, "crash") \/ Includes(typeLower, "collision")
    THEN "accident"
  ELSE IF Includes(typeLower, "closure") \/ Includes(typeLower, "closed") \/ Includes(typeLower, "blocked")
    THEN "closure"
  ELSE IF Includes(typeLower, "construction") \/ Includes(typeLower, "work")
          \/ Includes(typeLower, "maintenance")
    THEN "construction"
  ELSE IF Includes(typeLower, "disabled") \/ Includes(typeLower, "breakdown")
          \/ Includes(typeLower, "stalled")
    THEN "disabled"
  ELSE IF Includes(typeLower, "hazard") \/ Includes(typeLower, "debris")
          \/ Includes(typeLower, "obstruction")
    THEN "hazard"
  ELSE "other"

determineSeverity(type, description) ==
  IF type = "closure" \/ type = "accident" THEN "alert"
  ELSE IF type = "construction" \/ type = "hazard" THEN "advisory"
  ELSE "info"

\* An absent tag or field is the empty string (both are falsy).
\* <<incidentType, description>> of an element's tags
TrafficTypeAndDescription(tags) ==
  IF tags.construction # "" \/ tags.highway = "construction"
    THEN <<"construction",
           IF tags.construction # "" THEN "Construction: " \o tags.construction
           ELSE IF tags.name # "" THEN tags.name ELSE "Road construction">>
  ELSE IF tags.access = "no" \/ tags.barrier # ""
    THEN <<"closure",
           IF tags.barrier # "" THEN "Road closure: " \o tags.barrier
           ELSE IF tags.name # "" THEN tags.name ELSE "Road closed">>
  ELSE IF tags.hazard # "" \/ tags.natural = "hazard"
    THEN <<"hazard",
           IF tags.hazard # "" THEN "Hazard: " \o tags.hazard
           ELSE IF tags.name # "" THEN tags.name ELSE "Road hazard">>
  ELSE LET name == IF tags.name # "" THEN tags.name ELSE tags.ref IN
       <<normalizeTrafficType(name), IF name # "" THEN name ELSE "Traffic incident">>

\* .filter(element => element.type === 'way' && element.center && isWithinLakeArea(...))
TrafficElementKept(element) ==
  /\ element.type = "way"
  /\ element.hasCenter
  /\ isWithinLakeArea(element.lat, element.lon)

\* new Date(element.timestamp).toISOString() throws a RangeError on an Invalid Date
TrafficElementThrows(element, tz) ==
  /\ TrafficElementKept(element)
  /\ element.timestamp # ""
  /\ IsNaN(DateParse(element.timestamp, tz))

TrafficIncident(element, now, tz) ==
  LET td == TrafficTypeAndDescription(element.tags) IN
  [id |-> "osm-" \o element.type \o "-" \o NumberToString(element.id),
   type |-> td[1], description |-> td[2], lat |-> element.lat, lng |-> element.lon,
   severity |-> determineSeverity(td[1], td[2]),
   timestamp |-> IF element.timestamp # ""
                   THEN ToISOString(DateParse(element.timestamp, tz).t)
                   ELSE ToISOString(now),
   source |-> "OpenStreetMap"]

RECURSIVE TrafficIncidents(_, _, _)
TrafficIncidents(elements, now, tz) ==
  IF Len(elements) = 0 THEN <<>>
  ELSE LET rest == TrafficIncidents(Tail(elements), now, tz) IN
       IF TrafficElementKept(Head(elements))
         THEN <<TrafficIncident(Head(elements), now, tz)>> \o rest
         ELSE rest

\* The body of the try block of fetchTrafficIncidents.
TrafficIncidentsBody(resp, now, tz) ==
  IF resp.settled = "rejected" THEN Threw
  ELSE IF ~resp.ok THEN Returned(<<>>)
  ELSE IF JsonThrows(resp) \/ FieldReadThrows(resp) THEN Threw
  ELSE IF resp.kind # "list" THEN Returned(<<>>)
  ELSE IF \E i \in 1..Len(resp.items) : TrafficElementThrows(resp.items[i], tz) THEN Threw
  ELSE Returned(TrafficIncidents(resp.items, now, tz))

fetchTrafficIncidents(resp, now, tz) == TryCatch(TrafficIncidentsBody(resp, now, tz), <<>>)

getHighestIncidentSeverity(incidents) ==
  IF Len(incidents) = 0 THEN NULL
  ELSE IF \E i \in 1..Len(incidents) : incidents[i].severity = "alert" THEN "alert"
  ELSE IF \E i \in 1..Len(incidents) : incidents[i].severity = "advisory" THEN "advisory"
  ELSE "info"

(***************************************************************************)
(* lib/weather-alerts.ts                                                   *)
(***************************************************************************)
\* a || b for strings
OrElse(a, b) == IF a # "" THEN a ELSE b

\* A feature is [hasProperties, status, id, event, severity, headline].
WeatherAlert(props) ==
  [id |-> props.id,
   event |-> OrElse(props.event, "Unknown"),
   severity |-> OrElse(props.severity, "Unknown"),
   headline |-> OrElse(props.headline, OrElse(props.event, "Weather Alert"))]

RECURSIVE WeatherAlerts(_)
WeatherAlerts(features) ==
  IF Len(features) = 0 THEN <<>>
  ELSE LET rest == WeatherAlerts(Tail(features)) IN
       IF Head(features).hasProperties /\ Head(features).status = "Actual"
         THEN <<WeatherAlert(Head(features))>> \o rest
         ELSE rest

\* The body of the try block of fetchWeatherAlerts.
WeatherAlertsBody(resp) ==
  IF resp.settled = "rejected" THEN Threw
  ELSE IF ~resp.ok THEN Returned(<<>>)
  ELSE IF JsonThrows(resp) \/ FieldReadThrows(resp) THEN Threw
  ELSE IF resp.kind # "list" THEN Returned(<<>>)
  ELSE Returned(WeatherAlerts(resp.items))

fetchWeatherAlerts(resp) == TryCatch(WeatherAlertsBody(resp), <<>>)

getAlertSeverity(event, severity) ==
  LET eventLower == ToLowerCase(event)
      severityLower == ToLowerCase(severity)
  IN IF Includes(eventLower, "warning") \/ severityLower = "extreme" \/ severityLower = "severe"
       THEN "warning"
     ELSE IF Includes(eventLower, "watch") \/ severityLower = "moderate" THEN "watch"
     ELSE IF Includes(eventLower, "advisory") \/ severityLower = "minor" THEN "advisory"
     ELSE NULL

(***************************************************************************)
(* lib/supabase.ts: fetchLocations.  The query comes back as an object     *)
(* with an error ("error"), without data ("null"), with rows ("list"), or  *)
(* the client throws ("rejected").                                         *)
(***************************************************************************)
Location(row) ==
  [id |-> row.id, name |-> row.name, type |-> row.type, lat |-> row.lat, lng |-> row.lng]

RECURSIVE Locations(_)
Locations(rows) ==
  IF Len(rows) = 0 THEN <<>> ELSE <<Location(Head(rows))>> \o Locations(Tail(rows))

\* The body of the try block of fetchLocations.
LocationsBody(query) ==
  IF query.settled = "rejected" THEN Threw
  ELSE IF query.kind = "error" THEN Returned(<<>>)
  ELSE IF query.kind # "list" THEN Returned(<<>>)
  ELSE Returned(Locations(query.items))

fetchLocations(configured, query) ==
  IF ~configured THEN Resolved(<<>>) ELSE TryCatch(LocationsBody(query), <<>>)

(***************************************************************************)
(* One call of a fetcher: the inputs its requests can come back with.      *)
(***************************************************************************)
MaxItems == 2

\* The sequences of at most n distinct elements of S.
RECURSIVE ListsOf(_, _)
ListsOf(S, n) ==
  IF n = 0 THEN {<<>>}
  ELSE LET shorter == ListsOf(S, n - 1) IN
       shorter \cup {Append(l, x) : l \in shorter, x \in S}

DistinctListsOf(S, n) ==
  {l \in ListsOf(S, n) : \A i, j \in 1..Len(l) : i # j => l[i] # l[j]}

NewsItem(id, title, url, publishedAt) ==
  [id |-> id, title |-> title, summary |-> title, url |-> url, publishedAt |-> publishedAt]

\* Date.now() of the model
NowToken == "2026-11-01T12:00:00.000Z"
Now == DateParse(NowToken, 0).t

TimezoneOffsets == {0, 360}

SampleArticles ==
  { NewsItem("lakeexpo-boat-crash", "Boat crash near Osage Beach",
             "https://www.lakeexpo.com/news/crime/boat-crash", "2026-10-30"),
    NewsItem("lakeexpo-theft", "Police arrest made in Camdenton theft",
             "https://www.lakeexpo.com/news/crime/theft", "2026-10-31T09:00:00.000Z"),
    NewsItem("lakeexpo-old", "Fatal crash on Highway 54",
             "https://www.lakeexpo.com/news/crime/old", "9/1/2026"),
    NewsItem("lakeexpo-picnic", "City council picnic announced",
             "https://www.lakeexpo.com/community/picnic", "13/45/2026"),
    NewsItem("lakeexpo-blaze", "Fire crews respond to blaze",
             "https://www.lakeexpo.com/news/crime/blaze", "10/25/2026"),
    NewsItem("lakeexpo-regatta", "Regatta results posted",
             "https://www.lakeexpo.com/community/regatta", "2026-10-02T12:00:00.000Z") }

\* Article ids "lakeexpo-" + a last url segment of up to MaxIdChars characters.
MaxIdChars == 3

IdChars == {"a", "z", "-"}

RECURSIVE StringsOf(_, _)
StringsOf(S, n) ==
  IF n = 0 THEN {""}
  ELSE LET shorter == StringsOf(S, n - 1) IN
       shorter \cup {s \o c : s \in shorter, c \in S}

GeneratedIds == {"lakeexpo-" \o s : s \in StringsOf(IdChars, MaxIdChars)}

\* Two articles of today that carry the same id; the first has one of the
\* titles, the second names no place.
ArticlePairs ==
  {<<NewsItem(id, title, "https://www.lakeexpo.com/news/" \o id, NowToken),
     NewsItem(id, "City council picnic announced",
              "https://www.lakeexpo.com/community/" \o id, NowToken)>> :
     id \in GeneratedIds, title \in {"Regatta results posted", "Crash near Eldon"}}

SampleAnnouncements ==
  { NewsItem("city-road-work", "Road work advisory for Bagnell Dam",
             "https://cityoflakeozark.net/road-work", "2026-10-29"),
    NewsItem("city-aldermen", "Board of Aldermen meeting notice",
             "https://cityoflakeozark.net/aldermen", "2026-11-01T08:00:00.000Z") }

FailedResponses ==
  {RejectedResponse, Non2xxResponse, OkResponse("unparseable", <<>>),
   OkResponse("null", <<>>), OkResponse("object", <<>>)}

ResponsesWith(S) == FailedResponses \cup {OkResponse("list", l) : l \in DistinctListsOf(S, MaxItems)}

NoTags ==
  [construction |-> "", highway |-> "", access |-> "", barrier |-> "", hazard |-> "",
   natural |-> "", name |-> "", ref |-> ""]

OsmElement(type, id, hasCenter, lat, lon, tags, timestamp) ==
  [type |-> type, id |-> id, hasCenter |-> hasCenter, lat |-> lat, lon |-> lon,
   tags |-> tags, timestamp |-> timestamp]

SampleElements ==
  { OsmElement("way", 101, TRUE, 38200000, -92700000,
               [NoTags EXCEPT !.construction = "minor"], "2026-10-20T10:00:00.000Z"),
    OsmElement("way", 102, TRUE, 39000000, -92700000, [NoTags EXCEPT !.barrier = "gate"], ""),
    OsmElement("node", 103, TRUE, 38200000, -92700000, [NoTags EXCEPT !.hazard = "rocks"], ""),
    OsmElement("way", 104, TRUE, 38100000, -92600000,
               [NoTags EXCEPT !.name = "Crash cleanup on Hwy 54"], ""),
    OsmElement("way", 105, TRUE, 38300000, -92800000, [NoTags EXCEPT !.access = "no"],
               "last tuesday") }

AlertFeature(hasProperties, status, id, event, severity, headline) ==
  [hasProperties |-> hasProperties, status |-> status, id |-> id, event |-> event,
   severity |-> severity, headline |-> headline]

SampleFeatures ==
  { AlertFeature(TRUE, "Actual", "a1", "Severe Thunderstorm Warning", "Severe", ""),
    AlertFeature(TRUE, "Test", "a2", "Flood Watch", "Moderate", "Flood Watch test"),
    AlertFeature(TRUE, "Actual", "a3", "", "", ""),
    AlertFeature(FALSE, "", "", "", "", "") }

LocationRow(id, name, type, lat, lng) ==
  [id |-> id, name |-> name, type |-> type, lat |-> lat, lng |-> lng]

SampleRows ==
  { LocationRow("l1", "Dog Days", "bar", 38140000, -92650000),
    LocationRow("l2", "Lodge Marina", "marina", 38120000, -92700000) }

QueryOutcomes ==
  {RejectedResponse, OkResponse("error", <<>>), OkResponse("null", <<>>)}
  \cup {OkResponse("list", l) : l \in DistinctListsOf(SampleRows, MaxItems)}

FetcherCall(fn, a, b) == [fn |-> fn, a |-> a, b |-> b]

PendingPromise == [state |-> "pending", value |-> <<>>]

NoCall == FetcherCall("none", RejectedResponse, RejectedResponse)

RunFetchLocalIncidents ==
  /\ fxCall.fn = "fetchLocalIncidents"
  /\ fxResult = PendingPromise
  /\ fxResult' = fetchLocalIncidents(fxCall.a, fxCall.b, Now, tzOffset)
  /\ UNCHANGED <<fxCall, tzOffset, clsVars, szVars, apiVars, uiVars>>

RunFetchTopStory ==
  /\ fxCall.fn = "fetchTopStory"
  /\ fxResult = PendingPromise
  /\ fxResult' = fetchTopStory(fxCall.a, fxCall.b, tzOffset)
  /\ UNCHANGED <<fxCall, tzOffset, clsVars, szVars, apiVars, uiVars>>

RunFetchTrafficIncidents ==
  /\ fxCall.fn = "fetchTrafficIncidents"
  /\ fxResult = PendingPromise
  /\ fxResult' = fetchTrafficIncidents(fxCall.a, Now, tzOffset)
  /\ UNCHANGED <<fxCall, tzOffset, clsVars, szVars, apiVars, uiVars>>

RunFetchWeatherAlerts ==
  /\ fxCall.fn = "fetchWeatherAlerts"
  /\ fxResult = PendingPromise
  /\ fxResult' = fetchWeatherAlerts(fxCall.a)
  /\ UNCHANGED <<fxCall, tzOffset, clsVars, szVars, apiVars, uiVars>>

\* fxCall.b.ok stands for "both Supabase environment variables are set"
RunFetchLocations ==
  /\ fxCall.fn = "fetchLocations"
  /\ fxResult = PendingPromise
  /\ fxResult' = fetchLocations(fxCall.b.ok, fxCall.a)
  /\ UNCHANGED <<fxCall, tzOffset, clsVars, szVars, apiVars, uiVars>>

(***************************************************************************)
(* lib/sanitize.ts                                                         *)
(***************************************************************************)
EscapeChar(c) ==
  CASE c = "&" -> "&amp;"
    [] c = "<" -> "&lt;"
    [] c = ">" -> "&gt;"
    [] c = "\"" -> "&quot;"
    [] c = "'" -> "&#039;"
    [] OTHER -> c

\* text.replace(/[&<>"']/g, (char) => map[char])
RECURSIVE escapeHtml(_)
escapeHtml(text) ==
  IF Len(text) = 0 THEN ""
  ELSE EscapeChar(CharAt(text, 1)) \o escapeHtml(SubSeq(text, 2, Len(text)))

sanitizeText(text) == IF text = "" THEN "" ELSE escapeHtml(Trim(text))

dangerousSchemes == <<"javascript:", "data:", "vbscript:", "file:">>

\* A sanitizer that strips one leading whitespace character instead of all.
SanitizeUrlStripOne(url) ==
  IF url = "" THEN ""
  ELSE LET trimmed == IF IsSpace(CharAt(url, 1)) THEN SubSeq(url, 2, Len(url)) ELSE url
           lowerUrl == ToLowerCase(Trim(url))
       IN IF \E i \in 1..Len(dangerousSchemes) : StartsWith(lowerUrl, dangerousSchemes[i])
            THEN "#"
          ELSE IF ~(\/ StartsWith(lowerUrl, "http://")
                    \/ StartsWith(lowerUrl, "https://")
                    \/ StartsWith(lowerUrl, "/"))
            THEN "#"
          ELSE trimmed

sanitizeUrl(url) ==
  IF url = "" THEN ""
  ELSE LET trimmed == Trim(url)
           lowerUrl == ToLowerCase(trimmed)
       IN IF \E i \in 1..Len(dangerousSchemes) : StartsWith(lowerUrl, dangerousSchemes[i])
            THEN "#"
          ELSE IF ~(\/ StartsWith(lowerUrl, "http://")
                    \/ StartsWith(lowerUrl, "https://")
                    \/ StartsWith(lowerUrl, "/"))
            THEN "#"
          ELSE trimmed

truncateText(text, maxLength) ==
  IF text = "" THEN ""
  ELSE IF Len(text) <= maxLength THEN text
  ELSE SubSeq(text, 1, maxLength) \o "..."

(***************************************************************************)
(* The scraper endpoints.  A page is the sequence of its anchors in        *)
(* document order, each with what the patterns of the routes read of it:   *)
(*   level   the h1..h4 heading that opens on the same line before the     *)
(*           anchor (0 when the anchor is not in a heading),               *)
(*   href    the href attribute,  text  the anchor text (no "<"),          *)
(*   inner   the text of a <p> between the heading tag and the anchor,     *)
(*   date    the first M/D/YYYY or YYYY-MM-DD within 1000 characters of    *)
(*           the heading ("" when there is none),                          *)
(*   inNews  the anchor is inside <section class="...news...">,            *)
(*   after   the text of a <p> that follows the closing </a> within 500    *)
(*           characters of the heading ("" when there is none).            *)
(***************************************************************************)
Anchor(level, href, text, inner, date, inNews) ==
  [level |-> level, href |-> href, text |-> text, inner |-> inner, date |-> date,
   inNews |-> inNews, after |-> ""]

\* The anchor with <p>paragraph</p> after its heading.
FollowedBy(anchor, paragraph) == [anchor EXCEPT !.after = paragraph]

Min(a, b) == IF a <= b THEN a ELSE b

\* s.replace(/\s+/g, ' ')
RECURSIVE CollapseSpaces(_)
CollapseSpaces(s) ==
  IF Len(s) = 0 THEN ""
  ELSE IF IsSpace(CharAt(s, 1)) THEN " " \o CollapseSpaces(TrimStart(s))
  ELSE CharAt(s, 1) \o CollapseSpaces(SubSeq(s, 2, Len(s)))

\* s.split('/').pop()
RECURSIVE LastSegment(_)
LastSegment(s) ==
  IF Len(s) = 0 \/ CharAt(s, Len(s)) = "/" THEN ""
  ELSE LastSegment(SubSeq(s, 1, Len(s) - 1)) \o CharAt(s, Len(s))

\* String(Date.now()) for a time in minutes
DateNowString(now) == NumberToString(now * 6) \o "0000"

\* `${prefix}${sanitizedUrl.split('/').pop() || Date.now()}`
EntryId(prefix, sanitizedUrl, now) ==
  prefix \o (IF LastSegment(sanitizedUrl) # "" THEN LastSegment(sanitizedUrl)
             ELSE DateNowString(now))

\* What the two routes differ in.
LakeExpoSite ==
  [origin |-> "https://www.lakeexpo.com", prefix |-> "lakeexpo-", minLevel |-> 2, cap |-> 50]

CitySite ==
  [origin |-> "https://cityoflakeozark.net", prefix |-> "city-", minLevel |-> 1, cap |-> 30]

\* match[1].startsWith('http') ? match[1] : `${origin}${match[1]}`
AbsoluteUrl(href, origin) == IF StartsWith(href, "http") THEN href ELSE origin \o href

\* /<h[2-4][^>]*>.*?<a[^>]*href=["']([^"']+)["'][^>]*>([^<]+)<\/a>/gi
IsHeadingMatch(anchor, site) ==
  /\ anchor.level >= site.minLevel
  /\ anchor.level <= 4
  /\ Len(anchor.href) > 0
  /\ Len(anchor.text) > 0

\* The summary of a heading match: the window searched for <p> ends at
\* titlePattern.lastIndex, the end of the match itself, so match.after is
\* outside it.
HeadingSummary(match, title) ==
  IF Len(match.inner) >= 50
    THEN CollapseSpaces(Trim(SubSeq(match.inner, 1, Min(200, Len(match.inner)))))
    ELSE title

\* articles.push({ id, title, summary, url, publishedAt }) of pattern 1
HeadingEntry(match, url, title, site, now) ==
  LET sanitizedUrl == sanitizeUrl(url) IN
  [id |-> EntryId(site.prefix, sanitizedUrl, now),
   title |-> sanitizeText(title),
   summary |-> truncateText(sanitizeText(HeadingSummary(match, title)), 200),
   url |-> sanitizedUrl,
   publishedAt |-> IF match.date # "" THEN match.date ELSE ToISOString(now)]

\* articles.push({ ... }) of pattern 2
LinkEntry(url, title, site, now) ==
  LET sanitizedUrl == sanitizeUrl(url) IN
  [id |-> EntryId(site.prefix, sanitizedUrl, now),
   title |-> sanitizeText(title),
   summary |-> sanitizeText(title),
   url |-> sanitizedUrl,
   publishedAt |-> ToISOString(now)]

\* while ((match = titlePattern.exec(html)) !== null && articles.length < cap)
\* st is [articles, seenUrls].
RECURSIVE HeadingLoop(_, _, _, _)
HeadingLoop(matches, st, site, now) ==
  IF Len(matches) = 0 \/ Len(st.articles) >= site.cap THEN st
  ELSE LET match == Head(matches)
           url == AbsoluteUrl(match.href, site.origin)
           title == Trim(match.text)
       IN IF title # "" /\ url \notin st.seenUrls /\ Len(title) > 10
            THEN HeadingLoop(Tail(matches),
                             [articles |-> Append(st.articles,
                                                  HeadingEntry(match, url, title, site, now)),
                              seenUrls |-> st.seenUrls \cup {url}],
                             site, now)
            ELSE HeadingLoop(Tail(matches), st, site, now)

\* while ((match = altPattern.exec(html)) !== null && articles.length < cap);
\* relative is TRUE when the pattern captures only site-relative hrefs.
RECURSIVE LinkLoop(_, _, _, _, _)
LinkLoop(matches, st, site, now, relative) ==
  IF Len(matches) = 0 \/ Len(st.articles) >= site.cap THEN st
  ELSE LET match == Head(matches)
           url == IF relative THEN site.origin \o match.href
                  ELSE AbsoluteUrl(match.href, site.origin)
           title == Trim(match.text)
       IN IF title # "" /\ url \notin st.seenUrls /\ Len(title) > 10
            THEN LinkLoop(Tail(matches),
                          [articles |-> Append(st.articles, LinkEntry(url, title, site, now)),
                           seenUrls |-> st.seenUrls \cup {url}],
                          site, now, relative)
            ELSE LinkLoop(Tail(matches), st, site, now, relative)

\* /<a[^>]*href=["'](\/(?:news|community)\/[^"']+)["'][^>]*>([^<]{20,})<\/a>/gi
IsAltMatch(anchor) ==
  /\ \/ StartsWith(anchor.href, "/news/") /\ Len(anchor.href) > Len("/news/")
     \/ StartsWith(anchor.href, "/community/") /\ Len(anchor.href) > Len("/community/")
  /\ Len(anchor.text) >= 20

\* /<a[^>]*href=["']([^"']+)["'][^>]*>([^<]{20,})<\/a>/gi inside the news section
IsNewsLinkMatch(anchor) ==
  /\ anchor.inNews
  /\ Len(anchor.href) > 0
  /\ Len(anchor.text) >= 20

EmptyScan == [articles |-> <<>>, seenUrls |-> {}]

\* An extractor that runs pattern 2 however many records pattern 1 gave.
ParseArticlesBothPatterns(html, now) ==
  LET headings == SelectSeq(html, LAMBDA a : IsHeadingMatch(a, LakeExpoSite))
      st == HeadingLoop(headings, EmptyScan, LakeExpoSite, now)
  IN LinkLoop(SelectSeq(html, IsAltMatch), st, LakeExpoSite, now, TRUE).articles

\* parseArticles(html) of the lake-expo-news route
parseArticles(html, now) ==
  LET headings == SelectSeq(html, LAMBDA a : IsHeadingMatch(a, LakeExpoSite))
      st == HeadingLoop(headings, EmptyScan, LakeExpoSite, now)
  IN IF Len(st.articles) < 5
       THEN LinkLoop(SelectSeq(html, IsAltMatch), st, LakeExpoSite, now, TRUE).articles
       ELSE st.articles

\* crimeArticles.forEach(article => { if (!seenUrls.has(article.url)) ... })
RECURSIVE MergeFirstSeen(_, _)
MergeFirstSeen(merged, incoming) ==
  IF Len(incoming) = 0 THEN merged
  ELSE IF \E i \in 1..Len(merged) : merged[i].url = Head(incoming).url
    THEN MergeFirstSeen(merged, Tail(incoming))
    ELSE MergeFirstSeen(Append(merged, Head(incoming)), Tail(incoming))

\* What the fetch() of a route comes back with: rejected, non-2xx, a 2xx
\* response whose text() throws ("unreadable"), or a 2xx response with a page.
PageResponse(html) == OkResponse("page", html)

UnreadableResponse == OkResponse("unreadable", <<>>)

TextThrows(resp) == resp.kind = "unreadable"

\* NextResponse.json(body) and NextResponse.json(body, { status })
JsonResponse(status, body) == [status |-> status, body |-> body]

\* The response of a route whose handler body is inside try { } catch { }.
RespondCaught(outcome, fallback) ==
  IF outcome.threw THEN JsonResponse(200, fallback) ELSE JsonResponse(200, outcome.value)

\* The response of a route whose handler throws: Next.js answers 500.
RespondUncaught(outcome, fallback) ==
  IF outcome.threw THEN JsonResponse(500, fallback) ELSE JsonResponse(200, outcome.value)

\* The try block of GET /api/lake-expo-news.
LakeExpoNewsBody(crime, community, now, tz) ==
  IF IsProcessed(crime) /\ TextThrows(crime) THEN Threw
  ELSE IF IsProcessed(community) /\ TextThrows(community) THEN Threw
  ELSE LET crimeArticles == IF IsProcessed(crime) THEN parseArticles(crime.items, now)
                            ELSE <<>>
           communityArticles == IF IsProcessed(community)
                                  THEN parseArticles(community.items, now) ELSE <<>>
           articles == MergeFirstSeen(MergeFirstSeen(<<>>, crimeArticles), communityArticles)
           sorted == SortNewestFirst(articles, "publishedAt", tz)
       IN Returned([articles |-> SubSeq(sorted, 1, Min(50, Len(sorted)))])

LakeExpoNewsGET(crime, community, now, tz) ==
  RespondCaught(LakeExpoNewsBody(crime, community, now, tz), [articles |-> <<>>])

\* The try block of GET /api/city-announcements.
CityAnnouncementsBody(response, now) ==
  IF response.settled = "rejected" THEN Threw
  ELSE IF ~response.ok THEN Threw
  ELSE IF TextThrows(response) THEN Threw
  ELSE LET html == response.items
           headings == SelectSeq(html, LAMBDA a : IsHeadingMatch(a, CitySite))
           st == HeadingLoop(headings, EmptyScan, CitySite, now)
       IN IF Len(st.articles) = 0
            THEN Returned([announcements |->
                   LinkLoop(SelectSeq(html, IsNewsLinkMatch), st, CitySite, now, FALSE).articles])
            ELSE Returned([announcements |-> st.articles])

CityAnnouncementsUncaught(response, now) ==
  RespondUncaught(CityAnnouncementsBody(response, now), [announcements |-> <<>>])

CityAnnouncementsGET(response, now) ==
  RespondCaught(CityAnnouncementsBody(response, now), [announcements |-> <<>>])

\* A figure of the Ameren page is an option: <<>> when no pattern matches,
\* <<n>> (in tenths) for the capture of the first pattern that does.
LakeStatus(lakeLevel, waterTemp, riverLevel, now, error) ==
  [lakeLevel |-> lakeLevel, waterTemp |-> waterTemp, riverLevel |-> riverLevel,
   lastUpdated |-> ToISOString(now), error |-> error]

\* The try block of GET /api/lake-status.
LakeStatusBody(response, now) ==
  IF response.settled = "rejected" THEN Threw
  ELSE IF ~response.ok THEN Threw
  ELSE IF TextThrows(response) THEN Threw
  ELSE LET html == response.items[1] IN
       Returned(LakeStatus(html.lakeLevel, html.waterTemp, html.riverLevel, now, ""))

LakeStatusGET(response, now) ==
  RespondCaught(LakeStatusBody(response, now),
                LakeStatus(<<>>, <<>>, <<>>, now, "Unable to fetch lake status data"))

(***************************************************************************)
(* One request to an endpoint: what its upstream requests come back with.  *)
(***************************************************************************)
MaxAnchors == 2

LongParagraph == "Crews were called to the marina shortly after noon on Saturday."

BoatCrashAnchor ==
  Anchor(2, "/news/crime/boat-crash", "Boat crash near Osage Beach", "", "10/30/2026", FALSE)

\* the same href with a trailing blank
BoatCrashUpdateAnchor ==
  Anchor(3, "/news/crime/boat-crash ", "Boat crash: update from the water patrol", "",
         "2026-10-31", TRUE)

FestivalAnchor ==
  Anchor(0, "/community/fall-festival", "Fall festival returns to the Bagnell Dam strip", "",
         "", TRUE)

TheftAnchor ==
  FollowedBy(Anchor(2, "https://www.lakeexpo.com/news/crime/theft/",
                    "Police arrest made in theft", "", "", FALSE),
             LongParagraph)

BurnBanAnchor ==
  Anchor(1, "/notices/burn-ban", " Burn ban advisory issued ", LongParagraph, "10/25/2026",
         FALSE)

\* a heading followed by digits that match the date pattern and are no date
RegattaAnchor ==
  Anchor(3, "/news/regatta-results", "Regatta results posted by the yacht club", "",
         "13/45/2026", FALSE)

SampleAnchors ==
  {BoatCrashAnchor, BoatCrashUpdateAnchor, FestivalAnchor, TheftAnchor, BurnBanAnchor,
   RegattaAnchor}

\* the anchors the second page of a two-page endpoint is drawn from
SecondPageAnchors == {BoatCrashUpdateAnchor, FestivalAnchor}

\* Pages of up to MaxHeadings headings, with or without one plain link in
\* the news section after them.
MaxHeadings == 5

StoryAnchor(i) ==
  Anchor(2, "/news/crime/story-" \o NumberToString(i),
         "Story " \o NumberToString(i) \o " of the day", "", "", FALSE)

StoryPage(k, withLink) ==
  [i \in 1..k |-> StoryAnchor(i)] \o (IF withLink THEN <<FestivalAnchor>> ELSE <<>>)

StoryPages == {StoryPage(k, withLink) : k \in 0..MaxHeadings, withLink \in BOOLEAN}

FailedPageResponses == {RejectedResponse, Non2xxResponse, UnreadableResponse}

PageResponsesWith(S) ==
  FailedPageResponses \cup {PageResponse(html) : html \in DistinctListsOf(S, MaxAnchors)}

PageResponses == PageResponsesWith(SampleAnchors)

AmerenPage(lakeLevel, waterTemp, riverLevel) ==
  [lakeLevel |-> lakeLevel, waterTemp |-> waterTemp, riverLevel |-> riverLevel]

AmerenResponses ==
  FailedPageResponses
  \cup {PageResponse(<<AmerenPage(l, w, r)>>) :
          l \in {<<>>, <<6561>>}, w \in {<<>>, <<720>>}, r \in {<<>>, <<5512>>}}

ApiCall(endpoint, a, b) == [endpoint |-> endpoint, a |-> a, b |-> b]

\* No response yet.
PendingResponse == JsonResponse(0, <<>>)

GetLakeExpoNews ==
  /\ apiCall.endpoint = "/api/lake-expo-news"
  /\ apiResponse.status = 0
  /\ apiResponse' = LakeExpoNewsGET(apiCall.a, apiCall.b, Now, tzOffset)
  /\ UNCHANGED <<apiCall, tzOffset, fxCall, fxResult, clsVars, szVars, uiVars>>

GetCityAnnouncements ==
  /\ apiCall.endpoint = "/api/city-announcements"
  /\ apiResponse.status = 0
  /\ apiResponse' = CityAnnouncementsGET(apiCall.a, Now)
  /\ UNCHANGED <<apiCall, tzOffset, fxCall, fxResult, clsVars, szVars, uiVars>>

GetLakeStatus ==
  /\ apiCall.endpoint = "/api/lake-status"
  /\ apiResponse.status = 0
  /\ apiResponse' = LakeStatusGET(apiCall.a, Now)
  /\ UNCHANGED <<apiCall, tzOffset, fxCall, fxResult, clsVars, szVars, uiVars>>

(***************************************************************************)
(* components/Map.tsx and components/StatusBar.tsx.  The two components    *)
(* share no state, so one instance is modelled and is either of them.  A   *)
(* load function is named as in the source; the request it awaits is in    *)
(* flight until it resolves.  What a state slot shows is the cycle of the  *)
(* load that wrote it (0: the initial state) and whether that load's       *)
(* request had failed.                                                     *)
(***************************************************************************)
Components == {"Map", "StatusBar"}

\* The load functions of the effects of a component.
LoadersOf(c) ==
  IF c = "Map" THEN {"loadLocations", "loadIncidents", "loadLocalIntelligence"}
  ELSE {"fetchLakeStatus", "fetchAlerts", "fetchIncidents"}

Loaders == UNION {LoadersOf(c) : c \in Components}

\* The load functions handed to setInterval; loadLocations is called once.
PolledLoaders == Loaders \ {"loadLocations"}

\* The fetchers a load function awaits.
FetchersOf(loader) ==
  CASE loader = "loadLocations" -> {"fetchLocations"}
    [] loader = "loadIncidents" -> {"fetchTrafficIncidents"}
    [] loader = "loadLocalIntelligence" -> {"fetchLocalIncidents", "fetchTopStory"}
    [] loader = "fetchLakeStatus" -> {"fetch"}
    [] loader = "fetchAlerts" -> {"fetchWeatherAlerts"}
    [] loader = "fetchIncidents" -> {"fetchTrafficIncidents"}

\* The useState slot a fetcher's result is set into.
SlotOf(loader, fetcher) ==
  CASE loader = "loadLocations" -> "locations"
    [] loader = "loadIncidents" -> "trafficIncidents"
    [] loader = "loadLocalIntelligence" /\ fetcher = "fetchLocalIncidents" -> "localIncidents"
    [] loader = "loadLocalIntelligence" /\ fetcher = "fetchTopStory" -> "topStory"
    [] loader = "fetchLakeStatus" -> "lakeStatus"
    [] loader = "fetchAlerts" -> "weatherAlerts"
    [] loader = "fetchIncidents" -> "statusBarTrafficIncidents"

\* The state slots of a component that its load functions set.
SlotsOf(c) == UNION {{SlotOf(l, f) : f \in FetchersOf(l)} : l \in LoadersOf(c)}

Slots == UNION {SlotsOf(c) : c \in Components}

Request(loader, cycle, fetcher) == [loader |-> loader, cycle |-> cycle, fetcher |-> fetcher]

RequestsOf(loader, cycle) == {Request(loader, cycle, f) : f \in FetchersOf(loader)}

Shown(cycle, outcome) == [cycle |-> cycle, outcome |-> outcome]

\* useState([]) / useState(null)
InitialShown == Shown(0, "none")

\* setLocalIncidents(incidents); setTopStory(story): one continuation, one
\* batched render.  incidents and story are the outcomes of the two fetchers.
CommitIncidentsOnly(shown, cycle, incidents, story) ==
  [shown EXCEPT !["localIncidents"] = Shown(cycle, incidents)]

CommitLocalIntelligence(shown, cycle, incidents, story) ==
  [shown EXCEPT !["localIncidents"] = Shown(cycle, incidents),
                !["topStory"] = Shown(cycle, story)]

\* An interval callback that skips its fetch after a failed one.
PollCallbackUnlessErrored(loader, shown) ==
  IF \E f \in FetchersOf(loader) : shown[SlotOf(loader, f)].outcome = "errored"
    THEN {} ELSE FetchersOf(loader)

\* setInterval(loadIncidents, ...): the callback is the load function, which
\* starts its fetchers whatever is shown.
PollCallback(loader, shown) == FetchersOf(loader)

Outcomes == {"loaded", "errored"}

MaxTicks == 2

\* isOpen of LocationPanel, IncidentPanel and LocalIncidentPanel, in the
\* order Map renders them.
PanelsOpen == <<isPanelOpen, isIncidentPanelOpen, isLocalIncidentPanelOpen>>

\* The body of useEffect(..., [isOpen]) of one panel:
\* classList.add('panel-open') if (isOpen), else classList.remove.
PanelEffect(class, isOpen) == IF isOpen THEN TRUE ELSE FALSE

\* The effects of the panels in rerun run in render order.
RECURSIVE RunPanelEffects(_, _, _, _)
RunPanelEffects(class, i, rerun, open) ==
  IF i > Len(open) THEN class
  ELSE RunPanelEffects(IF i \in rerun THEN PanelEffect(class, open[i]) ELSE class,
                       i + 1, rerun, open)

\* The effects of a commit.  The cleanup of every panel whose isOpen changed
\* runs first (each is classList.remove), then the effects of those panels.
PanelEffects(class, before, after) ==
  LET changed == {i \in 1..Len(after) : before[i] # after[i]}
      cleaned == IF changed = {} THEN class ELSE FALSE
  IN RunPanelEffects(cleaned, 1, changed, after)

\* The effects of the component run: each load function is called once and
\* all but loadLocations are handed to setInterval.
Mount ==
  /\ phase = "created"
  /\ phase' = "mounted"
  /\ intervals' = LoadersOf(component) \cap PolledLoaders
  /\ started' = [l \in Loaders |-> IF l \in LoadersOf(component) THEN 1 ELSE 0]
  /\ requests' = UNION {RequestsOf(l, 1) : l \in LoadersOf(component)}
  /\ bodyPanelOpen' = IF component = "Map"
                        THEN RunPanelEffects(bodyPanelOpen, 1, 1..Len(PanelsOpen), PanelsOpen)
                        ELSE bodyPanelOpen
  /\ UNCHANGED <<component, display, settledParts, ticks, selectionVars, viewVars, clsVars,
                 szVars, fxVars, apiVars>>

\* An interval fires.
Tick(loader) ==
  /\ loader \in intervals
  /\ ticks < MaxTicks
  /\ ticks' = ticks + 1
  /\ started' = [started EXCEPT ![loader] = @ + 1]
  /\ requests' = requests \cup
       {Request(loader, started[loader] + 1, f) : f \in PollCallback(loader, display)}
  /\ UNCHANGED <<component, phase, intervals, display, settledParts, panelVars, viewVars, clsVars, szVars, fxVars, apiVars>>

\* The request of a load function with one fetcher resolves and the load
\* function sets its slot (a set state of an unmounted component is dropped).
ResolveSingle(req, outcome) ==
  /\ req \in requests
  /\ req.loader # "loadLocalIntelligence"
  /\ requests' = requests \ {req}
  /\ display' = IF phase = "mounted"
                  THEN [display EXCEPT ![SlotOf(req.loader, req.fetcher)] =
                                          Shown(req.cycle, outcome)]
                  ELSE display
  /\ UNCHANGED <<component, phase, intervals, started, settledParts, ticks, panelVars, viewVars, clsVars, szVars, fxVars,
                 apiVars>>

\* One of the two promises of Promise.all([fetchLocalIncidents(),
\* fetchTopStory()]) resolves; when it is the second, loadLocalIntelligence
\* resumes and sets both slots.
ResolveLocalIntelligence(req, outcome) ==
  /\ req \in requests
  /\ req.loader = "loadLocalIntelligence"
  /\ requests' = requests \ {req}
  /\ IF \E other \in requests : other # req /\ other.loader = req.loader /\ other.cycle = req.cycle
       THEN /\ settledParts' = settledParts \cup
                 {[cycle |-> req.cycle, fetcher |-> req.fetcher, outcome |-> outcome]}
            /\ UNCHANGED display
       ELSE LET first == CHOOSE s \in settledParts : s.cycle = req.cycle
                incidents == IF req.fetcher = "fetchLocalIncidents" THEN outcome
                             ELSE first.outcome
                story == IF req.fetcher = "fetchTopStory" THEN outcome ELSE first.outcome
            IN /\ settledParts' = settledParts \ {first}
               /\ display' = IF phase = "mounted"
                               THEN CommitLocalIntelligence(display, req.cycle, incidents, story)
                               ELSE display
  /\ UNCHANGED <<component, phase, intervals, started, ticks, panelVars, viewVars, clsVars, szVars, fxVars, apiVars>>

\* The cleanups of the effects run: clearInterval(interval) for the load
\* effects, document.body.classList.remove('panel-open') for the panels.
Unmount ==
  /\ phase = "mounted"
  /\ phase' = "unmounted"
  /\ intervals' = {}
  /\ bodyPanelOpen' = IF component = "Map" THEN FALSE ELSE bodyPanelOpen
  /\ UNCHANGED <<component, requests, display, settledParts, started, ticks, selectionVars,
                 viewVars, clsVars, szVars, fxVars, apiVars>>

(***************************************************************************)
(* The three detail panels of Map.  closeTimeouts counts, per panel, the   *)
(* setTimeout(..., 300) callbacks that have not run yet.                   *)
(***************************************************************************)
MaxTimers == 2

LocationTypes == {"restaurant", "marina", "bar"}

LocationIds == {"l1", "l2"}

TrafficIncidentIds == {"osm-way-101", "osm-way-104"}

LocalIncidentIds == {"lakeexpo-boat-crash", "city-road-work"}

PanelNames == {"location", "incident", "localIncident"}

handleMarkerClick(location) ==
  /\ phase = "mounted"
  /\ selectedLocation' = location
  /\ isPanelOpen' = TRUE
  /\ UNCHANGED <<selectedIncident, isIncidentPanelOpen, selectedLocalIncident,
                 isLocalIncidentPanelOpen, closeTimeouts, lifeVars, pollVars, viewVars, clsVars, szVars, fxVars,
                 apiVars>>
  /\ bodyPanelOpen' = PanelEffects(bodyPanelOpen, PanelsOpen, PanelsOpen')

\* The close control exists while the panel is rendered (location non-null).
handleClosePanel ==
  /\ phase = "mounted"
  /\ selectedLocation # NULL
  /\ closeTimeouts["location"] < MaxTimers
  /\ isPanelOpen' = FALSE
  /\ closeTimeouts' = [closeTimeouts EXCEPT !["location"] = @ + 1]
  /\ UNCHANGED <<selectedLocation, selectedIncident, isIncidentPanelOpen, selectedLocalIncident,
                 isLocalIncidentPanelOpen, lifeVars, pollVars, viewVars, clsVars, szVars, fxVars, apiVars>>
  /\ bodyPanelOpen' = PanelEffects(bodyPanelOpen, PanelsOpen, PanelsOpen')

handleIncidentClick(incident) ==
  /\ phase = "mounted"
  /\ selectedIncident' = incident
  /\ isIncidentPanelOpen' = TRUE
  /\ isPanelOpen' = IF isPanelOpen THEN FALSE ELSE isPanelOpen
  /\ UNCHANGED <<selectedLocation, selectedLocalIncident, isLocalIncidentPanelOpen,
                 closeTimeouts, lifeVars, pollVars, viewVars, clsVars, szVars, fxVars, apiVars>>
  /\ bodyPanelOpen' = PanelEffects(bodyPanelOpen, PanelsOpen, PanelsOpen')

handleCloseIncidentPanel ==
  /\ phase = "mounted"
  /\ selectedIncident # NULL
  /\ closeTimeouts["incident"] < MaxTimers
  /\ isIncidentPanelOpen' = FALSE
  /\ closeTimeouts' = [closeTimeouts EXCEPT !["incident"] = @ + 1]
  /\ UNCHANGED <<selectedLocation, isPanelOpen, selectedIncident, selectedLocalIncident,
                 isLocalIncidentPanelOpen, lifeVars, pollVars, viewVars, clsVars, szVars, fxVars, apiVars>>
  /\ bodyPanelOpen' = PanelEffects(bodyPanelOpen, PanelsOpen, PanelsOpen')

handleLocalIncidentClick(incident) ==
  /\ phase = "mounted"
  /\ selectedLocalIncident' = incident
  /\ isLocalIncidentPanelOpen' = TRUE
  /\ isPanelOpen' = IF isPanelOpen THEN FALSE ELSE isPanelOpen
  /\ isIncidentPanelOpen' = IF isIncidentPanelOpen THEN FALSE ELSE isIncidentPanelOpen
  /\ UNCHANGED <<selectedLocation, selectedIncident, closeTimeouts, lifeVars, pollVars, viewVars,
                 clsVars, szVars, fxVars, apiVars>>
  /\ bodyPanelOpen' = PanelEffects(bodyPanelOpen, PanelsOpen, PanelsOpen')

handleCloseLocalIncidentPanel ==
  /\ phase = "mounted"
  /\ selectedLocalIncident # NULL
  /\ closeTimeouts["localIncident"] < MaxTimers
  /\ isLocalIncidentPanelOpen' = FALSE
  /\ closeTimeouts' = [closeTimeouts EXCEPT !["localIncident"] = @ + 1]
  /\ UNCHANGED <<selectedLocation, isPanelOpen, selectedIncident, isIncidentPanelOpen,
                 selectedLocalIncident, lifeVars, pollVars, viewVars, clsVars, szVars, fxVars, apiVars>>
  /\ bodyPanelOpen' = PanelEffects(bodyPanelOpen, PanelsOpen, PanelsOpen')

\* A setTimeout callback runs: () => setSelectedLocation(null), and the like.
\* Nothing cancels it, so it also runs after the component has unmounted
\* (its set state is then dropped).
CloseTimeoutFires(panel) ==
  /\ closeTimeouts[panel] > 0
  /\ closeTimeouts' = [closeTimeouts EXCEPT ![panel] = @ - 1]
  /\ selectedLocation' =
       IF panel = "location" /\ phase = "mounted" THEN NULL ELSE selectedLocation
  /\ selectedIncident' =
       IF panel = "incident" /\ phase = "mounted" THEN NULL ELSE selectedIncident
  /\ selectedLocalIncident' =
       IF panel = "localIncident" /\ phase = "mounted" THEN NULL ELSE selectedLocalIncident
  /\ UNCHANGED <<isPanelOpen, isIncidentPanelOpen, isLocalIncidentPanelOpen, bodyPanelOpen, lifeVars,
                 pollVars, viewVars, clsVars, szVars, fxVars, apiVars>>

(***************************************************************************)
(* The search box and the filter buttons of Map.  Each handler sets one    *)
(* piece of state; the render that follows reruns the effects whose        *)
(* dependency array names a piece of state that changed.                   *)
(***************************************************************************)
SearchTexts == {"", "dock", "BAR"}

\* An effect that reloads the locations when the filters change.
EffectDepsOnFilters(loader) ==
  IF loader = "loadLocations" THEN {"searchQuery", "activeTypes"} ELSE {}

\* The dependency array of the effect that defines and calls a load
\* function: [] for every one of them.
EffectDeps(loader) == {}

\* The render after the pieces of state in changed were set: the effects
\* that depend on one of them run again and call their load function.
Rerender(changed) ==
  LET rerun == {l \in LoadersOf(component) : EffectDeps(l) \cap changed # {}} IN
  /\ started' = [l \in Loaders |-> IF l \in rerun THEN started[l] + 1 ELSE started[l]]
  /\ requests' = requests \cup UNION {RequestsOf(l, started[l] + 1) : l \in rerun}

\* An updater that also lets the last active type be switched off.
ToggleUpdaterUnguarded(prev, type) ==
  IF type \in prev THEN prev \ {type} ELSE prev \cup {type}

\* The updater toggleTypeFilter hands to setActiveTypes.
ToggleUpdater(prev, type) ==
  LET newSet == IF type \in prev THEN prev \ {type} ELSE prev \cup {type}
  IN IF Cardinality(newSet) = 0 THEN prev ELSE newSet

toggleTypeFilter(type) ==
  /\ phase = "mounted"
  /\ activeTypes' = ToggleUpdater(activeTypes, type)
  /\ Rerender(IF activeTypes' # activeTypes THEN {"activeTypes"} ELSE {})
  /\ UNCHANGED <<searchQuery, showTrafficIncidents, showLocalIncidents, lifeVars, display,
                 settledParts, ticks, panelVars, renderVars, clsVars, szVars, fxVars, apiVars>>

\* onClick={() => setShowTrafficIncidents(!showTrafficIncidents)}
ToggleTrafficFilter ==
  /\ phase = "mounted"
  /\ showTrafficIncidents' = ~showTrafficIncidents
  /\ Rerender({"showTrafficIncidents"})
  /\ UNCHANGED <<searchQuery, activeTypes, showLocalIncidents, lifeVars, display,
                 settledParts, ticks, panelVars, renderVars, clsVars, szVars, fxVars, apiVars>>

\* onClick={() => setShowLocalIncidents(!showLocalIncidents)}
ToggleLocalFilter ==
  /\ phase = "mounted"
  /\ showLocalIncidents' = ~showLocalIncidents
  /\ Rerender({"showLocalIncidents"})
  /\ UNCHANGED <<searchQuery, activeTypes, showTrafficIncidents, lifeVars, display,
                 settledParts, ticks, panelVars, renderVars, clsVars, szVars, fxVars, apiVars>>

\* onChange={(e) => setSearchQuery(e.target.value)}
ChangeSearchQuery(value) ==
  /\ phase = "mounted"
  /\ searchQuery' = value
  /\ Rerender(IF value # searchQuery THEN {"searchQuery"} ELSE {})
  /\ UNCHANGED <<activeTypes, showTrafficIncidents, showLocalIncidents, lifeVars, display,
                 settledParts, ticks, panelVars, renderVars, clsVars, szVars, fxVars, apiVars>>

(***************************************************************************)
(* The incident markers and the results count of one render of Map.        *)
(***************************************************************************)
\* incident.lat != null && incident.lng != null && !isNaN(incident.lat) &&
\* !isNaN(incident.lng)
HasCoordinates(incident) == incident.lat \in Int /\ incident.lng \in Int

\* list.filter(... index \in wanted).map(incident => <Marker key=... />), from
\* position i on.  A marker is the key it is given, the icon family that
\* draws it and the incident it stands for (its slot and position).
RECURSIVE MarkersFrom(_, _, _, _, _, _)
MarkersFrom(list, i, wanted, slot, keyPrefix, icon) ==
  IF i > Len(list) THEN <<>>
  ELSE (IF i \in wanted
          THEN <<[key |-> keyPrefix \o list[i].id, icon |-> icon, slot |-> slot, index |-> i]>>
          ELSE <<>>)
       \o MarkersFrom(list, i + 1, wanted, slot, keyPrefix, icon)

\* The local layer also draws accidents while the Traffic filter is on.
IncidentMarkersBothLayers(showTraffic, showLocal, traffic, local) ==
  (IF showTraffic
     THEN MarkersFrom(traffic, 1, 1..Len(traffic), "trafficIncidents", "", "getIncidentIcon")
          \o MarkersFrom(local, 1,
                         {i \in 1..Len(local) :
                            local[i].type = "accident" /\ HasCoordinates(local[i])},
                         "localIncidents", "local-", "getIncidentIcon")
     ELSE <<>>)
  \o (IF showLocal
        THEN MarkersFrom(local, 1, {i \in 1..Len(local) : HasCoordinates(local[i])},
                         "localIncidents", "", "getLocalIncidentIcon")
        ELSE <<>>)

\* The incident markers inside <MapContainer>, in document order.
IncidentMarkers(showTraffic, showLocal, traffic, local) ==
  (IF showTraffic
     THEN MarkersFrom(traffic, 1, 1..Len(traffic), "trafficIncidents", "", "getIncidentIcon")
          \o MarkersFrom(local, 1,
                         {i \in 1..Len(local) :
                            local[i].type = "accident" /\ HasCoordinates(local[i])},
                         "localIncidents", "local-", "getIncidentIcon")
     ELSE <<>>)
  \o (IF showLocal
        THEN MarkersFrom(local, 1,
                         {i \in 1..Len(local) :
                            /\ ~(showTraffic /\ local[i].type = "accident")
                            /\ HasCoordinates(local[i])},
                         "localIncidents", "", "getLocalIncidentIcon")
        ELSE <<>>)

CountWhere(list, wanted) == Cardinality({i \in 1..Len(list) : list[i].type \in wanted})

\* The number before "incidents visible" (the function called in place).
IncidentsVisible(showTraffic, showLocal, traffic, local) ==
  LET fromTraffic == IF showTraffic
                       THEN Len(traffic) + CountWhere(local, {"accident"})
                       ELSE 0
      localCount == IF showTraffic THEN CountWhere(local, IncidentCategory \ {"accident"})
                    ELSE Len(local)
  IN fromTraffic + (IF showLocal THEN localCount ELSE 0)

\* The condition under which the count is rendered at all.
CountIsShown(showTraffic, showLocal) == ~showTraffic \/ ~showLocal

\* What fetchTrafficIncidents and fetchLocalIncidents resolve with when
\* their requests are answered with lists of at most n samples.
LoadedTrafficLists(n) ==
  {fetchTrafficIncidents(OkResponse("list", l), Now, 0).value :
     l \in DistinctListsOf(SampleElements, n)}

CrashArticle ==
  NewsItem("lakeexpo-eldon-crash", "Crash near Eldon",
           "https://www.lakeexpo.com/news/crime/eldon-crash", NowToken)

LoadedLocalLists(n) ==
  {fetchLocalIncidents(OkResponse("list", a), OkResponse("list", c), Now, 0).value :
     a \in DistinctListsOf(SampleArticles \cup {CrashArticle}, n),
     c \in DistinctListsOf(SampleAnnouncements, 1)}

MapSlotValues(traffic, local) ==
  [trafficIncidents |-> traffic, localIncidents |-> local]

(***************************************************************************)
(* StatusBar: the conditionData memo.                                      *)
(***************************************************************************)
\* A reduction that answers with the severity of the first alert.
GetHighestSeverityOfFirst(alerts) ==
  IF Len(alerts) = 0 THEN NULL ELSE getAlertSeverity(alerts[1].event, alerts[1].severity)

\* The for loop of getHighestSeverity from alert i on, highestSeverity
\* being the value of the loop variable.
RECURSIVE HighestSeverityLoop(_, _, _)
HighestSeverityLoop(alerts, i, highestSeverity) ==
  IF i > Len(alerts) THEN highestSeverity
  ELSE LET severity == getAlertSeverity(alerts[i].event, alerts[i].severity) IN
       IF severity = "warning" THEN "warning"
       ELSE LET afterWatch == IF severity = "watch" /\ highestSeverity # "warning"
                                THEN "watch" ELSE highestSeverity
                afterAdvisory == IF severity = "advisory" /\ afterWatch = NULL
                                   THEN "advisory" ELSE afterWatch
            IN HighestSeverityLoop(alerts, i + 1, afterAdvisory)

getHighestSeverity(alerts) ==
  IF Len(alerts) = 0 THEN NULL ELSE HighestSeverityLoop(alerts, 1, NULL)

\* useMemo(() => {...}, [weatherAlerts, trafficIncidents, initialCondition])
ConditionData(weatherAlerts, trafficIncidents, initialCondition) ==
  LET alertSeverity == getHighestSeverity(weatherAlerts)
      trafficIncidentSeverity == getHighestIncidentSeverity(trafficIncidents)
  IN [alertSeverity |-> alertSeverity,
      effectiveCondition |->
        IF alertSeverity = "warning" THEN "alert"
        ELSE IF alertSeverity = "watch" \/ alertSeverity = "advisory" THEN "advisory"
        ELSE IF trafficIncidentSeverity \in {"alert", "advisory", "info"} THEN "advisory"
        ELSE initialCondition]

MaxAlerts == 2

\* Alerts as fetchWeatherAlerts builds them: one of each severity and one
\* that getAlertSeverity gives no severity.
SampleAlerts ==
  { WeatherAlert([id |-> "w1", event |-> "Tornado Warning", severity |-> "Extreme",
                  headline |-> ""]),
    WeatherAlert([id |-> "w2", event |-> "Flood Watch", severity |-> "Moderate",
                  headline |-> ""]),
    WeatherAlert([id |-> "w3", event |-> "Lake Wind Advisory", severity |-> "Minor",
                  headline |-> ""]),
    WeatherAlert([id |-> "w4", event |-> "Special Weather Statement", severity |-> "",
                  headline |-> ""]) }

StatusBarSlotValues(alerts, traffic) ==
  [weatherAlerts |-> alerts, statusBarTrafficIncidents |-> traffic]

\* <StatusBar condition="normal" alertCount={0} />
InitialCondition == "normal"

\* StatusBar renders: the memo is computed from the two lists.
RenderStatusBar ==
  /\ component = "StatusBar"
  /\ phase = "mounted"
  /\ conditionData = <<>>
  /\ conditionData' = <<ConditionData(slotValues.weatherAlerts,
                                      slotValues.statusBarTrafficIncidents,
                                      InitialCondition)>>
  /\ UNCHANGED <<slotValues, filterVars, lifeVars, pollVars, panelVars, clsVars, szVars,
                 fxVars, apiVars>>

(***************************************************************************)
(* Classifier inputs: texts built from a small vocabulary, plus the        *)
(* scenario title of the specification.                                    *)
(***************************************************************************)
MaxTitleWords == 2

Vocabulary ==
  {"Boat", "FIRE", "crash", "Police", "alert", "Fatal", "serious", "marine",
   "picnic"}

HouseFireTitle == "House fire reported near Main St"

RECURSIVE Phrases(_)
Phrases(n) ==
  IF n = 0 THEN {""}
  ELSE LET shorter == Phrases(n - 1) IN
       shorter \cup {IF p = "" THEN w ELSE p \o " " \o w : p \in shorter, w \in Vocabulary}

Titles == Phrases(MaxTitleWords) \cup {HouseFireTitle}
Summaries == {"", "serious injuries", "Fire crews on scene", "boat ramp closed"}
TypeHints == {"", "Marine"}

ClsInputs == TypeHints \X Titles \X Summaries

\* One classification as fetchLocalIncidents performs it: the category of
\* the text, then the severity of that category and text.
Classify ==
  /\ clsCategory = NULL
  /\ LET cat == normalizeIncidentType(clsInput[1], clsInput[2], clsInput[3]) IN
       /\ clsCategory' = cat
       /\ clsSeverity' = determineIncidentSeverity(cat, clsInput[2], clsInput[3])
  /\ UNCHANGED <<clsInput, fxVars, apiVars, uiVars, szVars>>

(***************************************************************************)
(* One url through sanitizeUrl, and the result through it again.           *)
(***************************************************************************)
MaxApplications == 2

UrlHeads ==
  {"", "javascript:", "JavaScript:", "DATA:", "vbscript:", "File:", "http://", "HTTPS://",
   "https://", "/", "//", "#", "mailto:", "ftp://", "httpx", "www."}

UrlTails == {"", "lakeexpo.com/news", "alert(1)"}

Paddings == {"", " ", "\t "}

UrlInputs ==
  {before \o head \o tail \o after :
     before \in Paddings, head \in UrlHeads, tail \in UrlTails, after \in Paddings}

\* sanitizeUrl(url), then sanitizeUrl of what it returned
ApplySanitizeUrl ==
  /\ Len(szOutput) < MaxApplications
  /\ szOutput' = Append(szOutput,
                        sanitizeUrl(IF szOutput = <<>> THEN szInput
                                    ELSE szOutput[Len(szOutput)]))
  /\ UNCHANGED <<szInput, szMaxLength, clsVars, fxVars, apiVars, uiVars>>

(***************************************************************************)
(* One text and one maxLength through truncateText.                        *)
(***************************************************************************)
MaxTextLength == 4

MaxLimit == 5

TextChars == {"a", "<", " "}

TextInputs == StringsOf(TextChars, MaxTextLength)

\* truncateText(text, maxLength)
ApplyTruncateText ==
  /\ szOutput = <<>>
  /\ szOutput' = <<truncateText(szInput, szMaxLength)>>
  /\ UNCHANGED <<szInput, szMaxLength, clsVars, fxVars, apiVars, uiVars>>

(***************************************************************************)
(* Specifications.  Each one exercises one part of the program and holds   *)
(* the variables of the other parts at their idle values.                  *)
(***************************************************************************)
SzIdle ==
  /\ szInput = ""
  /\ szMaxLength = 0
  /\ szOutput = <<>>

ClsIdle ==
  /\ clsInput = <<"", "", "">>
  /\ clsCategory = NULL
  /\ clsSeverity = NULL

FxIdle ==
  /\ fxCall = NoCall
  /\ fxResult = PendingPromise

ApiIdle ==
  /\ apiCall = ApiCall("none", RejectedResponse, RejectedResponse)
  /\ apiResponse = PendingResponse

\* useState(''), useState(new Set(['restaurant', 'marina', 'bar'])),
\* useState(true), useState(true)
FiltersInitial ==
  /\ searchQuery = ""
  /\ activeTypes = LocationTypes
  /\ showTrafficIncidents = TRUE
  /\ showLocalIncidents = TRUE

\* No render is modelled: the lists in the slots are not tracked.
RenderIdle ==
  /\ slotValues = NULL
  /\ conditionData = <<>>

PanelsIdle ==
  /\ selectedLocation = NULL
  /\ isPanelOpen = FALSE
  /\ selectedIncident = NULL
  /\ isIncidentPanelOpen = FALSE
  /\ selectedLocalIncident = NULL
  /\ isLocalIncidentPanelOpen = FALSE
  /\ closeTimeouts = [p \in PanelNames |-> 0]
  /\ bodyPanelOpen = FALSE

\* The component has been rendered with its initial state; no effect has
\* run yet.
UiCreated ==
  /\ component = "Map"
  /\ phase = "created"
  /\ intervals = {}
  /\ requests = {}
  /\ settledParts = {}
  /\ display = [s \in Slots |-> InitialShown]
  /\ started = [l \in Loaders |-> 0]
  /\ ticks = 0
  /\ PanelsIdle
  /\ FiltersInitial
  /\ RenderIdle

\* The component c is mounted and every first load has come back.
Loaded(c) ==
  /\ component = c
  /\ phase = "mounted"
  /\ intervals = LoadersOf(c) \cap PolledLoaders
  /\ requests = {}
  /\ settledParts = {}
  /\ display = [s \in Slots |-> IF s \in SlotsOf(c) THEN Shown(1, "loaded")
                                  ELSE InitialShown]
  /\ started = [l \in Loaders |-> IF l \in LoadersOf(c) THEN 1 ELSE 0]
  /\ ticks = 0
  /\ PanelsIdle
  /\ FiltersInitial

UiLoaded ==
  /\ Loaded("Map")
  /\ RenderIdle

\* The classifier is given one input.
ClsInit ==
  /\ clsInput \in ClsInputs
  /\ clsCategory = NULL
  /\ clsSeverity = NULL
  /\ tzOffset = 0
  /\ SzIdle
  /\ FxIdle
  /\ ApiIdle
  /\ UiCreated

SpecClassify == ClsInit /\ [][Classify]_vars

SanitizeInit ==
  /\ szInput \in UrlInputs
  /\ szMaxLength = 0
  /\ szOutput = <<>>
  /\ tzOffset = 0
  /\ ClsIdle
  /\ FxIdle
  /\ ApiIdle
  /\ UiCreated

SanitizeNext == ApplySanitizeUrl

SpecSanitize == SanitizeInit /\ [][SanitizeNext]_vars

TruncateInit ==
  /\ szInput \in TextInputs
  /\ szMaxLength \in 0..MaxLimit
  /\ szOutput = <<>>
  /\ tzOffset = 0
  /\ ClsIdle
  /\ FxIdle
  /\ ApiIdle
  /\ UiCreated

TruncateNext == ApplyTruncateText

SpecTruncate == TruncateInit /\ [][TruncateNext]_vars

\* A fetcher has been called and its requests have settled.
FxInit ==
  /\ \/ fxCall \in {FetcherCall(fn, a, b) : fn \in {"fetchLocalIncidents", "fetchTopStory"},
                      a \in ResponsesWith(SampleArticles),
                      b \in ResponsesWith(SampleAnnouncements)}
     \/ fxCall \in {FetcherCall("fetchTrafficIncidents", a, RejectedResponse) :
                      a \in ResponsesWith(SampleElements)}
     \/ fxCall \in {FetcherCall("fetchWeatherAlerts", a, RejectedResponse) :
                      a \in ResponsesWith(SampleFeatures)}
     \/ fxCall \in {FetcherCall("fetchLocations", a, b) :
                      a \in QueryOutcomes, b \in {OkResponse("configured", <<>>), Non2xxResponse}}
  /\ fxResult = PendingPromise
  /\ tzOffset \in TimezoneOffsets
  /\ ClsIdle
  /\ SzIdle
  /\ ApiIdle
  /\ UiCreated

FxNext ==
  \/ RunFetchLocalIncidents
  \/ RunFetchTopStory
  \/ RunFetchTrafficIncidents
  \/ RunFetchWeatherAlerts
  \/ RunFetchLocations

SpecFetch == FxInit /\ [][FxNext]_vars

\* An endpoint has been requested and its upstream requests have settled.
ApiInit ==
  /\ \/ apiCall \in {ApiCall("/api/lake-expo-news", a, b) :
                       a \in PageResponses, b \in PageResponsesWith(SecondPageAnchors)}
     \/ apiCall \in {ApiCall("/api/city-announcements", a, RejectedResponse) :
                       a \in PageResponses}
     \/ apiCall \in {ApiCall("/api/lake-status", a, RejectedResponse) : a \in AmerenResponses}
  /\ apiResponse = PendingResponse
  /\ tzOffset \in TimezoneOffsets
  /\ ClsIdle
  /\ SzIdle
  /\ FxIdle
  /\ UiCreated

ApiNext ==
  \/ GetLakeExpoNews
  \/ GetCityAnnouncements
  \/ GetLakeStatus

SpecApi == ApiInit /\ [][ApiNext]_vars

\* fetchLocalIncidents is called and Lake Expo answers with two articles.
GeocodeInit ==
  /\ fxCall \in {FetcherCall("fetchLocalIncidents", OkResponse("list", pair),
                              OkResponse("list", <<>>)) : pair \in ArticlePairs}
  /\ fxResult = PendingPromise
  /\ tzOffset = 0
  /\ ClsIdle
  /\ SzIdle
  /\ ApiIdle
  /\ UiCreated

GeocodeNext == RunFetchLocalIncidents

SpecGeocode == GeocodeInit /\ [][GeocodeNext]_vars

\* A news endpoint has been requested and its first page is a page of
\* headings.
ScrapeInit ==
  /\ \/ apiCall \in {ApiCall("/api/lake-expo-news", PageResponse(page), b) :
                       page \in StoryPages, b \in PageResponsesWith(SecondPageAnchors)}
     \/ apiCall \in {ApiCall("/api/city-announcements", PageResponse(page), RejectedResponse) :
                       page \in StoryPages}
  /\ apiResponse = PendingResponse
  /\ tzOffset \in TimezoneOffsets
  /\ ClsIdle
  /\ SzIdle
  /\ FxIdle
  /\ UiCreated

ScrapeNext ==
  \/ GetLakeExpoNews
  \/ GetCityAnnouncements

SpecScrape == ScrapeInit /\ [][ScrapeNext]_vars

\* A component is rendered, mounts, polls, and is torn down.
PollInit ==
  /\ component \in Components
  /\ phase = "created"
  /\ intervals = {}
  /\ requests = {}
  /\ settledParts = {}
  /\ display = [s \in Slots |-> InitialShown]
  /\ started = [l \in Loaders |-> 0]
  /\ ticks = 0
  /\ PanelsIdle
  /\ FiltersInitial
  /\ RenderIdle
  /\ tzOffset = 0
  /\ ClsIdle
  /\ SzIdle
  /\ FxIdle
  /\ ApiIdle

PollNext ==
  \/ Mount
  \/ \E loader \in Loaders : Tick(loader)
  \/ \E req \in requests, outcome \in Outcomes : ResolveSingle(req, outcome)
  \/ \E req \in requests, outcome \in Outcomes : ResolveLocalIntelligence(req, outcome)
  \/ Unmount

SpecPoll == PollInit /\ [][PollNext]_vars

PanelsInit ==
  /\ UiLoaded
  /\ tzOffset = 0
  /\ ClsIdle
  /\ SzIdle
  /\ FxIdle
  /\ ApiIdle

PanelsNext ==
  \/ \E location \in LocationIds : handleMarkerClick(location)
  \/ handleClosePanel
  \/ \E incident \in TrafficIncidentIds : handleIncidentClick(incident)
  \/ handleCloseIncidentPanel
  \/ \E incident \in LocalIncidentIds : handleLocalIncidentClick(incident)
  \/ handleCloseLocalIncidentPanel
  \/ \E panel \in PanelNames : CloseTimeoutFires(panel)
  \/ Unmount

SpecPanels == PanelsInit /\ [][PanelsNext]_vars

\* Map from its first render on, with the search box and the filter buttons
\* in use while its first loads are in flight or have come back.
FiltersInit ==
  /\ UiCreated
  /\ tzOffset = 0
  /\ ClsIdle
  /\ SzIdle
  /\ FxIdle
  /\ ApiIdle

FiltersNext ==
  \/ Mount
  \/ \E req \in requests, outcome \in Outcomes : ResolveSingle(req, outcome)
  \/ \E req \in requests, outcome \in Outcomes : ResolveLocalIntelligence(req, outcome)
  \/ \E type \in LocationTypes : toggleTypeFilter(type)
  \/ ToggleTrafficFilter
  \/ ToggleLocalFilter
  \/ \E value \in SearchTexts : ChangeSearchQuery(value)

SpecFilters == FiltersInit /\ [][FiltersNext]_vars

\* Map with its incident lists loaded, and the two incident filter buttons.
MarkersInit ==
  /\ Loaded("Map")
  /\ slotValues \in {MapSlotValues(traffic, local) :
                        traffic \in LoadedTrafficLists(MaxItems),
                        local \in LoadedLocalLists(MaxItems)}
  /\ conditionData = <<>>
  /\ tzOffset = 0
  /\ ClsIdle
  /\ SzIdle
  /\ FxIdle
  /\ ApiIdle

MarkersNext ==
  \/ ToggleTrafficFilter
  \/ ToggleLocalFilter

SpecMarkers == MarkersInit /\ [][MarkersNext]_vars

\* StatusBar with its alerts and incidents loaded.
ConditionInit ==
  /\ Loaded("StatusBar")
  /\ slotValues \in {StatusBarSlotValues(alerts, traffic) :
                        alerts \in ListsOf(SampleAlerts, MaxAlerts),
                        traffic \in LoadedTrafficLists(MaxItems)}
  /\ conditionData = <<>>
  /\ tzOffset = 0
  /\ ClsIdle
  /\ SzIdle
  /\ FxIdle
  /\ ApiIdle

ConditionNext == RenderStatusBar

SpecCondition == ConditionInit /\ [][ConditionNext]_vars

(***************************************************************************)
(* Claims about the classifier, checked under SpecClassify                 *)
(***************************************************************************)
\* The keyword sets in the priority order the specification gives them.
CategoryKeywords ==
  << <<"boating", {"boat", "marine", "watercraft"}>>,
     <<"fire", {"fire", "blaze", "burn"}>>,
     <<"accident", {"accident", "crash", "collision"}>>,
     <<"crime", {"crime", "arrest", "theft", "police"}>>,
     <<"advisory", {"advisory", "warning", "alert"}>> >>

MatchesKeywords(text, i) == \E w \in CategoryKeywords[i][2] : Includes(text, w)

FirstMatchingCategory(text) ==
  LET hits == {i \in 1..Len(CategoryKeywords) : MatchesKeywords(text, i)} IN
  IF hits = {} THEN "other"
  ELSE CategoryKeywords[CHOOSE i \in hits : \A j \in hits : i <= j][1]

ClsText == ClassifierText(clsInput[1], clsInput[2], clsInput[3])

\* C8: for every (type, title, summary) normalizeIncidentType returns one of
\* the six categories, the one of the first keyword set, in the order boating,
\* fire, accident, crime, advisory, that the lower-cased text contains, and
\* "other" when it contains none; text with both "fire" and "boat" is boating.
C8_CategoryByPriority ==
  clsCategory # NULL =>
    /\ clsCategory \in IncidentCategory
    /\ clsCategory = FirstMatchingCategory(ClsText)
    /\ (Includes(ClsText, "fire") /\ Includes(ClsText, "boat") => clsCategory = "boating")

C8_Witness ==
  /\ clsCategory = "boating"
  /\ Includes(ClsText, "fire")
  /\ Includes(ClsText, "boat")

ClsSeriousText ==
  LET text == ToLowerCase(clsInput[2] \o " " \o clsInput[3]) IN
  Includes(text, "fatal") \/ Includes(text, "serious")

\* C9: severity is decided by the category and the text alone: fire is alert,
\* an accident whose title or summary contains "fatal" or "serious" (in any
\* letter case) is alert, any other accident, boating, crime and advisory are
\* advisory, other is info; so info exactly when the category is other, and
\* the title "House fire reported near Main St" with an empty summary is
\* fire / alert.
C9_SeverityByCategory ==
  clsSeverity # NULL =>
    /\ clsSeverity \in IncidentSeverity
    /\ (clsCategory = "fire" => clsSeverity = "alert")
    /\ (clsCategory = "accident" /\ ClsSeriousText => clsSeverity = "alert")
    /\ (clsCategory = "accident" /\ ~ClsSeriousText => clsSeverity = "advisory")
    /\ (clsCategory \in {"boating", "crime", "advisory"} => clsSeverity = "advisory")
    /\ (clsSeverity = "info" <=> clsCategory = "other")
    /\ (clsInput = <<"", HouseFireTitle, "">> =>
          clsCategory = "fire" /\ clsSeverity = "alert")

C9_Witness ==
  /\ clsInput = <<"", HouseFireTitle, "">>
  /\ clsCategory = "fire"
  /\ clsSeverity = "alert"

(***************************************************************************)
(* fetchLocalIncidents and its sources                                     *)
(***************************************************************************)
\* The source gave a 2xx response whose body is an object with the list.
AnsweredValidly(resp) == IsProcessed(resp) /\ resp.kind = "list"

\* What the two sources contribute when each is looked at on its own.
RetainedOfValidSources(expo, city, now, tz) ==
  (IF AnsweredValidly(expo) THEN ExpoIncidents(expo.items, now, tz) ELSE <<>>)
  \o (IF AnsweredValidly(city) THEN CityIncidents(city.items, now, tz) ELSE <<>>)

LocalCallDone == fxCall.fn = "fetchLocalIncidents" /\ fxResult # PendingPromise

\* C2: whatever the two source requests come back with, fetchLocalIncidents
\* resolves to exactly the retained items of the sources that answered
\* validly, newest first; a failing source takes nothing away from the other.
C2_SourceFailureIsolated ==
  LocalCallDone =>
    fxResult = Resolved(SortNewestFirst(
                 RetainedOfValidSources(fxCall.a, fxCall.b, Now, tzOffset),
                 "timestamp", tzOffset))

\* The same statement restricted to failures that do not throw inside the
\* try block (rejected request, non-2xx response, object without the list).
C2_IsolatedUnlessBodyThrows ==
  (LocalCallDone /\ ~LocalIncidentsBody(fxCall.a, fxCall.b, Now, tzOffset).threw) =>
    fxResult = Resolved(SortNewestFirst(
                 RetainedOfValidSources(fxCall.a, fxCall.b, Now, tzOffset),
                 "timestamp", tzOffset))

(***************************************************************************)
(* The five fetchers never reject                                          *)
(***************************************************************************)
\* Network failure, non-2xx, malformed payload, or a list without entries.
SourceGivesNothing(resp) == resp \in FailedResponses \/ (resp.kind = "list" /\ Len(resp.items) = 0)

\* The call is one where every source fails or nothing matches.
FxNothingToReturn ==
  CASE fxCall.fn \in {"fetchLocalIncidents", "fetchTopStory"} ->
         SourceGivesNothing(fxCall.a) /\ SourceGivesNothing(fxCall.b)
    [] fxCall.fn = "fetchTrafficIncidents" ->
         \/ SourceGivesNothing(fxCall.a)
         \/ \A i \in 1..Len(fxCall.a.items) : ~TrafficElementKept(fxCall.a.items[i])
         \/ \E i \in 1..Len(fxCall.a.items) : TrafficElementThrows(fxCall.a.items[i], tzOffset)
    [] fxCall.fn = "fetchWeatherAlerts" ->
         \/ SourceGivesNothing(fxCall.a)
         \/ \A i \in 1..Len(fxCall.a.items) :
              ~(fxCall.a.items[i].hasProperties /\ fxCall.a.items[i].status = "Actual")
    [] fxCall.fn = "fetchLocations" ->
         ~fxCall.b.ok \/ fxCall.a.settled = "rejected" \/ fxCall.a.kind # "list"
         \/ Len(fxCall.a.items) = 0
    [] OTHER -> FALSE

\* C3: no fetcher's promise is ever rejected, and when every source fails or
\* nothing matches the promise resolves to the empty list (null, the empty
\* option, for fetchTopStory).
C3_FetchersNeverReject ==
  /\ fxResult.state # "rejected"
  /\ (fxResult.state = "resolved" /\ FxNothingToReturn) => fxResult.value = <<>>

\* A call whose body throws has been answered with the empty list.
C3_Witness ==
  /\ fxCall.fn = "fetchLocalIncidents"
  /\ JsonThrows(fxCall.a)
  /\ AnsweredValidly(fxCall.b) /\ Len(fxCall.b.items) = 2
  /\ fxResult = Resolved(<<>>)

(***************************************************************************)
(* The endpoints, checked under SpecApi                                    *)
(***************************************************************************)
ApiAnswered == apiResponse.status # 0

\* The upstream request failed: unreachable, non-2xx, or unreadable body.
UpstreamFailed(resp) == resp \in FailedPageResponses

\* The handler of the endpoint cannot produce its result: its one upstream
\* request failed; for the two-page endpoint, both page requests failed or a
\* body could not be read.
ApiInternalFailure ==
  CASE apiCall.endpoint = "/api/lake-expo-news" ->
         \/ UpstreamFailed(apiCall.a) /\ UpstreamFailed(apiCall.b)
         \/ TextThrows(apiCall.a)
         \/ TextThrows(apiCall.b)
    [] apiCall.endpoint \in {"/api/city-announcements", "/api/lake-status"} ->
         UpstreamFailed(apiCall.a)
    [] OTHER -> FALSE

\* C4: every response of the three endpoints has status 200; on an internal
\* failure the news endpoints answer {articles: []} and {announcements: []},
\* and lake-status answers its three figures null with an error string.
C4_AlwaysHttp200 ==
  ApiAnswered =>
    /\ apiResponse.status = 200
    /\ ApiInternalFailure =>
         CASE apiCall.endpoint = "/api/lake-expo-news" ->
                apiResponse.body = [articles |-> <<>>]
           [] apiCall.endpoint = "/api/city-announcements" ->
                apiResponse.body = [announcements |-> <<>>]
           [] apiCall.endpoint = "/api/lake-status" ->
                /\ apiResponse.body.lakeLevel = <<>>
                /\ apiResponse.body.waterTemp = <<>>
                /\ apiResponse.body.riverLevel = <<>>
                /\ apiResponse.body.error # ""

\* The city site answered 503 and the endpoint answered 200 with no items.
C4_Witness ==
  /\ apiCall.endpoint = "/api/city-announcements"
  /\ apiCall.a = Non2xxResponse
  /\ apiResponse = JsonResponse(200, [announcements |-> <<>>])

\* The list an answered news endpoint returned.
ReturnedNews ==
  IF apiCall.endpoint = "/api/lake-expo-news" THEN apiResponse.body.articles
  ELSE apiResponse.body.announcements

IsNewsEndpoint == apiCall.endpoint \in {"/api/lake-expo-news", "/api/city-announcements"}

NoTwoWithSameUrl(items) ==
  \A i, j \in 1..Len(items) : i # j => items[i].url # items[j].url

\* C10: in every list the two news endpoints return, no two items have the
\* same url.
C10_NoDuplicateUrls ==
  (ApiAnswered /\ IsNewsEndpoint) => NoTwoWithSameUrl(ReturnedNews)

\* The same for the lake-expo-news endpoint alone, whose merge compares the
\* urls it returns.
C10_LakeExpoNoDuplicateUrls ==
  (ApiAnswered /\ apiCall.endpoint = "/api/lake-expo-news") => NoTwoWithSameUrl(ReturnedNews)

(***************************************************************************)
(* The detail panels and the timers, checked under SpecPanels              *)
(***************************************************************************)
\* A panel is on screen: its isOpen flag is set and it has something to show.
PanelOpen(panel) ==
  CASE panel = "location" -> isPanelOpen /\ selectedLocation # NULL
    [] panel = "incident" -> isIncidentPanelOpen /\ selectedIncident # NULL
    [] panel = "localIncident" -> isLocalIncidentPanelOpen /\ selectedLocalIncident # NULL

\* C1: after any sequence of marker clicks and panel closes at most one of
\* the three detail panels is open.
C1_AtMostOnePanelOpen == Cardinality({panel \in PanelNames : PanelOpen(panel)}) <= 1

\* The same for the one handler that closes both other panels.
C1_LocalIncidentClickClosesOthers ==
  [][\A incident \in LocalIncidentIds :
       handleLocalIncidentClick(incident) => (~isPanelOpen' /\ ~isIncidentPanelOpen')]_vars

\* C7: once the component is torn down none of its timers is left: no poll
\* interval is active and no 300 ms panel-close timeout is pending.
C7_TimersClearedOnTeardown ==
  phase = "unmounted" =>
    /\ intervals = {}
    /\ \A panel \in PanelNames : closeTimeouts[panel] = 0

\* The part of it that concerns the poll intervals.
C7_IntervalsClearedOnTeardown == phase = "unmounted" => intervals = {}

(***************************************************************************)
(* Polling, checked under SpecPoll                                         *)
(***************************************************************************)
\* The five data kinds, by the state slot that holds them.
DataKinds == {"locations", "weatherAlerts", "trafficIncidents", "localIncidents", "topStory"}

PolledKinds == DataKinds \ {"locations"}

\* The data kinds of the component instance.
KindsHere(kinds) == kinds \cap SlotsOf(component)

LoaderOfSlot(slot) == CHOOSE l \in Loaders : \E f \in FetchersOf(l) : SlotOf(l, f) = slot

\* idle until first fetched, loading while a call of its load function is in
\* flight, otherwise the outcome of the load shown.
Status(slot) ==
  IF \E req \in requests : req.loader = LoaderOfSlot(slot) THEN "loading"
  ELSE IF display[slot].cycle = 0 THEN "idle"
  ELSE display[slot].outcome

StatusStep(before, after) ==
  \/ after = before
  \/ before = "idle" /\ after = "loading"
  \/ before = "loading" /\ after \in Outcomes
  \/ before \in Outcomes /\ after = "loading"

\* C5 as stated: while the component is mounted every one of the five data
\* kinds has a poll interval.
C5_EveryKindPolled ==
  phase = "mounted" => \A kind \in KindsHere(DataKinds) : LoaderOfSlot(kind) \in intervals

\* C5: weather alerts, traffic incidents, local incidents and top story go
\* idle -> loading -> loaded | errored, have an active poll interval while
\* the component is mounted, and every tick of it puts them back into loading
\* whatever the previous outcome; locations are fetched once, on mount, and
\* have no interval.
C5_PolledKindsRefetchOnTick ==
  /\ [](phase = "mounted" =>
          \A kind \in KindsHere(PolledKinds) : LoaderOfSlot(kind) \in intervals)
  /\ []("loadLocations" \notin intervals /\ started["loadLocations"] <= 1)
  /\ [][\A loader \in PolledLoaders :
          Tick(loader) => \A f \in FetchersOf(loader) : Status(SlotOf(loader, f))' = "loading"]_vars
  /\ [][phase' = "mounted" =>
          \A kind \in KindsHere(DataKinds) : StatusStep(Status(kind), Status(kind)')]_vars

\* Weather alerts are being fetched again after a fetch that had failed.
C5_Witness ==
  /\ component = "StatusBar"
  /\ phase = "mounted"
  /\ display["weatherAlerts"] = Shown(1, "errored")
  /\ requests = {Request("fetchAlerts", 2, "fetchWeatherAlerts")}

\* C6: the local incidents and the top story on display are always those of
\* one and the same completed cycle of loadLocalIntelligence.
C6_SameCycleShown == display["localIncidents"].cycle = display["topStory"].cycle

\* The second cycle is on display, complete, while the first is still in
\* flight.
C6_Witness ==
  /\ display["localIncidents"].cycle = 2
  /\ display["topStory"].cycle = 2
  /\ Request("loadLocalIntelligence", 1, "fetchTopStory") \in requests

(***************************************************************************)
(* The order of the lake-expo-news list, checked under SpecApi             *)
(***************************************************************************)
PublishedTime(item) == DateParse(item.publishedAt, tzOffset)

\* No item of the list is older than one after it (items whose publishedAt
\* is no date are passed over).
NewestFirst(items) ==
  \A i, j \in 1..Len(items) :
    (i < j /\ ~IsNaN(PublishedTime(items[i])) /\ ~IsNaN(PublishedTime(items[j])))
      => PublishedTime(items[i]).t >= PublishedTime(items[j]).t

AllDatesParse(items) == \A i \in 1..Len(items) : ~IsNaN(PublishedTime(items[i]))

LakeExpoAnswered == ApiAnswered /\ apiCall.endpoint = "/api/lake-expo-news"

\* C11: the list /api/lake-expo-news returns holds at most 50 articles and is
\* ordered by publishedAt newest first, whatever date tokens the extractor
\* emitted.
C11_NewestFirstAtMost50 ==
  LakeExpoAnswered => (Len(ReturnedNews) <= 50 /\ NewestFirst(ReturnedNews))

\* The order does hold when every publishedAt of the list parses.
C11_NewestFirstWhenDatesParse ==
  (LakeExpoAnswered /\ AllDatesParse(ReturnedNews)) => NewestFirst(ReturnedNews)

(***************************************************************************)
(* The retention window of fetchLocalIncidents, checked under SpecFetch    *)
(***************************************************************************)
\* The items the call read: those of the sources that answered with a list.
ItemsRead ==
  (IF AnsweredValidly(fxCall.a) THEN {fxCall.a.items[i] : i \in 1..Len(fxCall.a.items)} ELSE {})
  \cup (IF AnsweredValidly(fxCall.b) THEN {fxCall.b.items[i] : i \in 1..Len(fxCall.b.items)}
        ELSE {})

\* The call ran its try block to the end.
LocalCallCompleted ==
  LocalCallDone /\ ~LocalIncidentsBody(fxCall.a, fxCall.b, Now, tzOffset).threw

IsReturned(item) ==
  \E i \in 1..Len(fxResult.value) :
    fxResult.value[i].id = item.id /\ fxResult.value[i].timestamp = item.publishedAt

\* Minutes from the date a string parses to until now.
AgeOf(publishedAt) == Now - DateParse(publishedAt, tzOffset).t

DateParses(publishedAt) == ~IsNaN(DateParse(publishedAt, tzOffset))

\* 30 days and 7 days, in minutes
ThirtyDays == 43200

SevenDays == 10080

C13_UnparseableDateKept ==
  LocalCallCompleted =>
    \A item \in ItemsRead : ~DateParses(item.publishedAt) => IsReturned(item)

\* What the loop does with them instead: none is ever returned.
C13_UnparseableDateDiscarded ==
  LocalCallDone =>
    \A i \in 1..Len(fxResult.value) : DateParses(fxResult.value[i].timestamp)

\* C14: every incident returned has a timestamp at most 7 days old.
C14_OnlyLastSevenDays ==
  LocalCallDone =>
    \A i \in 1..Len(fxResult.value) :
      DateParses(fxResult.value[i].timestamp) => AgeOf(fxResult.value[i].timestamp) <= SevenDays

(***************************************************************************)
(* The records of the scrapers, checked under SpecApi                      *)
(***************************************************************************)
NewsAnswered == ApiAnswered /\ IsNewsEndpoint

SiteOfCall == IF apiCall.endpoint = "/api/lake-expo-news" THEN LakeExpoSite ELSE CitySite

\* The anchors of the pages the handler read.
AnchorsRead ==
  {apiCall.a.items[i] : i \in 1..Len(apiCall.a.items)}
  \cup (IF apiCall.endpoint = "/api/lake-expo-news"
          THEN {apiCall.b.items[i] : i \in 1..Len(apiCall.b.items)} ELSE {})

\* The records returned for an anchor.
RecordsOf(anchor) ==
  {ReturnedNews[i] : i \in {k \in 1..Len(ReturnedNews) :
                              ReturnedNews[k].title = sanitizeText(anchor.text)}}

IsSummaryParagraph(text) == Len(text) >= 50 /\ Len(text) <= 200

\* The paragraph of 50 to 200 characters nearest after the heading tag.
ParagraphNear(anchor) ==
  IF IsSummaryParagraph(anchor.inner) THEN anchor.inner ELSE anchor.after

\* C15: the record of a heading match has the paragraph of 50 to 200
\* characters near its heading as summary when there is one, and its title
\* when there is none.
C15_SummaryFromParagraph ==
  NewsAnswered =>
    \A anchor \in AnchorsRead : \A record \in RecordsOf(anchor) :
      IsHeadingMatch(anchor, SiteOfCall) =>
        record.summary = IF IsSummaryParagraph(ParagraphNear(anchor))
                           THEN sanitizeText(ParagraphNear(anchor))
                           ELSE record.title

\* What does hold: a paragraph is found only between the heading tag and the
\* anchor; in every other case the summary is the title.
C15_SummaryFromParagraphBeforeAnchor ==
  NewsAnswered =>
    \A anchor \in AnchorsRead : \A record \in RecordsOf(anchor) :
      IsHeadingMatch(anchor, SiteOfCall) =>
        record.summary = IF IsSummaryParagraph(anchor.inner)
                           THEN sanitizeText(anchor.inner)
                           ELSE record.title

(***************************************************************************)
(* The two patterns of the scrapers, checked under SpecScrape              *)
(***************************************************************************)
\* The pages the handler read.
PagesRead ==
  {apiCall.a.items}
  \cup (IF apiCall.endpoint = "/api/lake-expo-news" /\ IsProcessed(apiCall.b)
          THEN {apiCall.b.items} ELSE {})

\* The number of records the heading pattern gives on a page.
PrimaryYield(page) ==
  Len(HeadingLoop(SelectSeq(page, LAMBDA a : IsHeadingMatch(a, SiteOfCall)), EmptyScan,
                  SiteOfCall, Now).articles)

\* An anchor only the secondary pattern of the route matches.
IsSecondaryOnly(anchor) ==
  /\ ~IsHeadingMatch(anchor, SiteOfCall)
  /\ IF apiCall.endpoint = "/api/lake-expo-news" THEN IsAltMatch(anchor)
     ELSE IsNewsLinkMatch(anchor)

\* The secondary pattern ran on the page: the links only it matches are among
\* the records.
SecondaryApplied(page) ==
  \A i \in 1..Len(page) : IsSecondaryOnly(page[i]) => RecordsOf(page[i]) # {}

SecondaryNotApplied(page) ==
  \A i \in 1..Len(page) :
    IsSecondaryOnly(page[i]) =>
      \A record \in RecordsOf(page[i]) :
        \E other \in PagesRead : other # page /\ SecondaryApplied(other)

HasSecondaryOnly(page) == \E i \in 1..Len(page) : IsSecondaryOnly(page[i])

\* The handler read every page it was given (no text() threw).
PagesWereRead == NewsAnswered /\ ~TextThrows(apiCall.a) /\ ~TextThrows(apiCall.b)

\* The secondary pattern is applied to a page exactly when the primary one
\* gave fewer than threshold records on it, and the list is within the cap.
SecondaryBelow(threshold, cap) ==
  PagesWereRead =>
    /\ Len(ReturnedNews) <= cap
    /\ \A page \in PagesRead :
         HasSecondaryOnly(page) =>
           IF PrimaryYield(page) < threshold THEN SecondaryApplied(page)
           ELSE SecondaryNotApplied(page)

PlaceNames == UNION {PlaceRules[i][1] : i \in 1..Len(PlaceRules)}

NamesNoPlace(incident) ==
  \A name \in PlaceNames :
    ~Includes(ToLowerCase(incident.title \o " " \o incident.summary), name)

\* Incidents of Lake Expo articles that name no place.
FallbackIncidents ==
  {fxResult.value[i] : i \in {k \in 1..Len(fxResult.value) :
                                /\ fxResult.value[k].source = "Lake Expo"
                                /\ NamesNoPlace(fxResult.value[k])}}

\* 0.25 degrees and the region center (38.15, -92.75), in millionths
SpreadDegrees == 250000

CenterLat == 38150000

CenterLng == -92750000

Abs(n) == IF n < 0 THEN 0 - n ELSE n

\* C17: the coordinate of an article that names no place is a function of its
\* id alone: with hash the sum of the id's character codes it is
\* center + ((hash mod 200) - 100)/400 * 0.25 in latitude and
\* center + (((hash*13) mod 200) - 100)/400 * 0.25 in longitude, and it lies
\* within 0.25 degrees of the center on both axes.
C17_FallbackCoordinate ==
  LocalCallDone =>
    \A incident \in FallbackIncidents :
      LET hash == CharCodeSum(incident.id) IN
      /\ incident.lat - CenterLat = ((hash % 200) - 100) * (SpreadDegrees \div 400)
      /\ incident.lng - CenterLng = (((hash * 13) % 200) - 100) * (SpreadDegrees \div 400)
      /\ Abs(incident.lat - CenterLat) <= SpreadDegrees
      /\ Abs(incident.lng - CenterLng) <= SpreadDegrees
      /\ \A other \in FallbackIncidents :
           other.id = incident.id => (other.lat = incident.lat /\ other.lng = incident.lng)

\* Two articles with one id and different texts, neither naming a place, have
\* been placed, south-west of the center.
C17_Witness ==
  /\ LocalCallDone
  /\ Cardinality(FallbackIncidents) = 2
  /\ \E incident \in FallbackIncidents :
       incident.lat < CenterLat /\ incident.lng < CenterLng

\* 37.95 <= lat <= 38.50 and -93.00 <= lng <= -92.50, in millionths
InWatchedRegion(lat, lng) ==
  /\ lat \in Int /\ lng \in Int
  /\ 37950000 <= lat /\ lat <= 38500000
  /\ -93000000 <= lng /\ lng <= -92500000

IncidentCallDone ==
  /\ fxCall.fn \in {"fetchLocalIncidents", "fetchTrafficIncidents"}
  /\ fxResult.state = "resolved"

\* C18: every local incident and every traffic incident returned has a
\* latitude and a longitude, inside the bounding box of the watched region;
\* so has the coordinate of every place-name rule and the city's.
C18_CoordinatesInRegion ==
  /\ IncidentCallDone =>
       \A i \in 1..Len(fxResult.value) :
         InWatchedRegion(fxResult.value[i].lat, fxResult.value[i].lng)
  /\ \A i \in 1..Len(PlaceRules) : InWatchedRegion(PlaceRules[i][2], PlaceRules[i][3])
  /\ InWatchedRegion(CityLat, CityLng)

\* Overpass returned a way north of the region with one inside it, and only
\* the one inside is among the incidents.
C18_Witness ==
  /\ fxCall.fn = "fetchTrafficIncidents"
  /\ fxResult.state = "resolved"
  /\ Len(fxCall.a.items) = 2
  /\ \E i \in 1..Len(fxCall.a.items) :
       fxCall.a.items[i].type = "way" /\ fxCall.a.items[i].lat > 38500000
  /\ Len(fxResult.value) = 1

(***************************************************************************)
(* sanitizeUrl, checked under SpecSanitize                                 *)
(***************************************************************************)
\* C19: sanitizeUrl applied to its own result gives that result again.
C19_SanitizeUrlIdempotent ==
  \A i \in 2..Len(szOutput) : szOutput[i] = szOutput[i - 1]

\* A padded https url has been sanitized twice.
C19_Witness ==
  /\ szInput = " https://lakeexpo.com/news\t "
  /\ szOutput = <<"https://lakeexpo.com/news", "https://lakeexpo.com/news">>

BeginsWithAny(u, prefixes) == \E prefix \in prefixes : StartsWith(ToLowerCase(u), prefix)

BeginsDangerous(u) == BeginsWithAny(u, {"javascript:", "data:", "vbscript:", "file:"})

BeginsAllowed(u) == BeginsWithAny(u, {"http://", "https://", "/"})

\* C20 as stated: '#' for a url that begins with a dangerous scheme or with
\* neither http(s):// nor '/', and every other url unchanged.
C20_RejectedOrUnchanged ==
  Len(szOutput) >= 1 =>
    szOutput[1] = IF BeginsDangerous(szInput) \/ ~BeginsAllowed(szInput) THEN "#" ELSE szInput

\* C20: the empty string gives the empty string; any other url is judged by
\* what remains of it when whitespace is stripped from both ends: '#' when
\* that begins (in any letter case) with javascript:, data:, vbscript: or
\* file:, or with neither http(s):// nor '/', and otherwise that stripped url
\* itself.  So the result is empty, '#', or begins with http://, https:// or
\* '/'.
C20_RejectedOrTrimmed ==
  Len(szOutput) >= 1 =>
    /\ szOutput[1] =
         IF szInput = "" THEN ""
         ELSE IF BeginsDangerous(Trim(szInput)) \/ ~BeginsAllowed(Trim(szInput)) THEN "#"
         ELSE Trim(szInput)
    /\ szOutput[1] \in {"", "#"} \/ BeginsAllowed(szOutput[1])

\* A url padded on both sides has come back without its padding.
C20_Witness ==
  /\ szInput = "\t /lakeexpo.com/news "
  /\ Len(szOutput) >= 1
  /\ szOutput[1] = "/lakeexpo.com/news"

\* The urls the two news endpoints store (checked under SpecApi).
C20_StoredUrlsSafe ==
  NewsAnswered =>
    \A i \in 1..Len(ReturnedNews) :
      ReturnedNews[i].url = "#" \/ BeginsAllowed(ReturnedNews[i].url)


(***************************************************************************)
(* C21.  truncateText(text, N) hard-caps the result at N characters: the   *)
(* returned string is never longer than N, it is the input itself when the *)
(* input has at most N characters, and it ends with the ellipsis marker    *)
(* when the input was longer.                                              *)
(***************************************************************************)
EndsWith(s, k) == Len(s) >= Len(k) /\ SubSeq(s, Len(s) - Len(k) + 1, Len(s)) = k

Truncated == szOutput # <<>>

C21_TruncateHardCap ==
  Truncated =>
    /\ Len(szOutput[1]) <= szMaxLength
    /\ Len(szInput) <= szMaxLength => szOutput[1] = szInput
    /\ Len(szInput) > szMaxLength => EndsWith(szOutput[1], "...")

\* C21, the part the code keeps: a text of at most N characters is returned
\* as it is, a longer one as its first N characters followed by "...",
\* which makes N + 3 characters.
C21_TruncateKeepsPrefix ==
  Truncated =>
    /\ Len(szInput) <= szMaxLength => szOutput[1] = szInput
    /\ Len(szInput) > szMaxLength =>
          /\ szOutput[1] = SubSeq(szInput, 1, szMaxLength) \o "..."
          /\ Len(szOutput[1]) = szMaxLength + 3


(***************************************************************************)
(* C22.  Toggling a location-type filter, the Traffic or the Local filter, *)
(* or editing the search text starts no fetch and leaves locations,        *)
(* trafficIncidents, localIncidents and topStory as they were.             *)
(***************************************************************************)
FilterStep == filterVars' # filterVars

C22_FiltersStartNoFetch ==
  [][FilterStep => UNCHANGED <<requests, started, settledParts, display>>]_vars

\* Filters were changed both while loads were in flight and after data came.
C22_Witness ==
  /\ phase = "mounted"
  /\ searchQuery # ""
  /\ activeTypes # LocationTypes
  /\ ~showTrafficIncidents
  /\ ~showLocalIncidents
  /\ display["locations"].outcome = "loaded"
  /\ \E req \in requests : req.loader = "loadLocalIntelligence"

(***************************************************************************)
(* C27.  The set of active location types is never empty: a toggle that    *)
(* would switch off the last active type leaves the set as it is, and any  *)
(* other toggle flips the membership of the toggled type and nothing else. *)
(***************************************************************************)
TypeToggleStep(type) ==
  LET flipped == IF type \in activeTypes THEN activeTypes \ {type}
                 ELSE activeTypes \cup {type}
  IN activeTypes' = IF activeTypes = {type} THEN activeTypes ELSE flipped

C27_ActiveTypesNeverEmpty ==
  [][/\ activeTypes' # {}
     /\ activeTypes' # activeTypes => \E type \in LocationTypes : TypeToggleStep(type)
     /\ \A type \in LocationTypes : <<toggleTypeFilter(type)>>_vars => TypeToggleStep(type)]_vars

\* Only one type is active, so the next toggle of it is the refused one.
C27_Witness == phase = "mounted" /\ Cardinality(activeTypes) = 1


(***************************************************************************)
(* C26.  For every setting of the Traffic and Local filters each local     *)
(* incident is drawn as at most one marker (an accident in the traffic     *)
(* layer when the Traffic filter is on, in the local layer otherwise), and *)
(* the "incidents visible" count is the number of incident markers drawn.  *)
(***************************************************************************)
MarkersNow ==
  IncidentMarkers(showTrafficIncidents, showLocalIncidents,
                  slotValues.trafficIncidents, slotValues.localIncidents)

MarkersOfLocal(i) ==
  {m \in 1..Len(MarkersNow) :
     MarkersNow[m].slot = "localIncidents" /\ MarkersNow[m].index = i}

C26_OneMarkerPerIncident ==
  LET local == slotValues.localIncidents IN
  /\ \A i \in 1..Len(local) :
        /\ Cardinality(MarkersOfLocal(i)) <= 1
        /\ \A m \in MarkersOfLocal(i) :
              local[i].type = "accident" =>
                MarkersNow[m].icon = IF showTrafficIncidents THEN "getIncidentIcon"
                                     ELSE "getLocalIncidentIcon"
  /\ CountIsShown(showTrafficIncidents, showLocalIncidents) =>
        IncidentsVisible(showTrafficIncidents, showLocalIncidents,
                         slotValues.trafficIncidents, local) = Len(MarkersNow)

\* An accident and another local incident are loaded, with a traffic
\* incident, and the Traffic filter is on while the Local filter is off.
C26_Witness ==
  /\ showTrafficIncidents
  /\ ~showLocalIncidents
  /\ slotValues.trafficIncidents # <<>>
  /\ \E i, j \in 1..Len(slotValues.localIncidents) :
        /\ slotValues.localIncidents[i].type = "accident"
        /\ slotValues.localIncidents[j].type # "accident"


(***************************************************************************)
(* C28.  The effective condition of StatusBar is "alert" exactly when some *)
(* weather alert is a warning, wherever it stands in the feed; otherwise   *)
(* it is "advisory" when there is a watch or an advisory among the weather *)
(* alerts or at least one traffic incident; and it is the initial          *)
(* condition "normal" only when there is neither.                          *)
(***************************************************************************)
SeveritiesPresent ==
  {getAlertSeverity(slotValues.weatherAlerts[i].event, slotValues.weatherAlerts[i].severity) :
     i \in 1..Len(slotValues.weatherAlerts)}

ConditionComputed == Len(conditionData) > 0

C28_WeatherOverTrafficOverNormal ==
  ConditionComputed =>
    LET condition == conditionData[1].effectiveCondition
        warned == "warning" \in SeveritiesPresent
        advised == \/ "watch" \in SeveritiesPresent
                   \/ "advisory" \in SeveritiesPresent
                   \/ Len(slotValues.statusBarTrafficIncidents) > 0
    IN /\ condition = "alert" <=> warned
       /\ condition = "advisory" <=> ~warned /\ advised
       /\ condition = "normal" <=> ~warned /\ ~advised

\* A warning that is not first in the feed, behind a lesser alert, with a
\* traffic incident of severity alert loaded as well.
C28_Witness ==
  /\ ConditionComputed
  /\ Len(slotValues.weatherAlerts) = 2
  /\ getAlertSeverity(slotValues.weatherAlerts[1].event,
                      slotValues.weatherAlerts[1].severity) \in {"watch", "advisory"}
  /\ getAlertSeverity(slotValues.weatherAlerts[2].event,
                      slotValues.weatherAlerts[2].severity) = "warning"
  /\ \E i \in 1..Len(slotValues.statusBarTrafficIncidents) :
        slotValues.statusBarTrafficIncidents[i].severity = "alert"


(***************************************************************************)
(* C23.  Whenever a detail panel is open its selected item is not null: a  *)
(* clear scheduled by an earlier close never nulls the selection of a      *)
(* panel that has been opened again since.                                 *)
(***************************************************************************)
IsOpenOf(panel) ==
  CASE panel = "location" -> isPanelOpen
    [] panel = "incident" -> isIncidentPanelOpen
    [] panel = "localIncident" -> isLocalIncidentPanelOpen

SelectedOf(panel) ==
  CASE panel = "location" -> selectedLocation
    [] panel = "incident" -> selectedIncident
    [] panel = "localIncident" -> selectedLocalIncident

C23_OpenPanelHasSelection ==
  phase = "mounted" => \A panel \in PanelNames : IsOpenOf(panel) => SelectedOf(panel) # NULL

\* C23, what holds instead: an open panel has lost its selection only
\* through a clear that was scheduled before the panel was opened again,
\* and no clear is pending for a panel that was never closed.
C23_SelectionLostOnlyToPendingClear ==
  [][\A panel \in PanelNames :
       (IsOpenOf(panel)' /\ SelectedOf(panel)' = NULL /\ phase' = "mounted"
          /\ ~(IsOpenOf(panel) /\ SelectedOf(panel) = NULL))
         => closeTimeouts'[panel] < closeTimeouts[panel]]_vars

(***************************************************************************)
(* C25.  After any sequence of panel opens and closes, document.body       *)
(* carries the class "panel-open" exactly when at least one of the three   *)
(* detail panels is open.                                                  *)
(***************************************************************************)
C25_BodyClassIffPanelOpen ==
  phase = "mounted" => (bodyPanelOpen <=> \E panel \in PanelNames : IsOpenOf(panel))

\* C25 for the panel whose effect ran last: after a step that changes the
\* isOpen of some panels, the class is there exactly when the last of them
\* in render order is open.
C25_BodyClassFollowsLastChangedPanel ==
  [][(PanelsOpen' # PanelsOpen /\ phase' = "mounted") =>
       LET last == CHOOSE i \in 1..Len(PanelsOpen) :
                     /\ PanelsOpen'[i] # PanelsOpen[i]
                     /\ \A j \in 1..Len(PanelsOpen) : PanelsOpen'[j] # PanelsOpen[j] => j <= i
       IN bodyPanelOpen' = PanelsOpen'[last]]_vars


(***************************************************************************)
(* C24.  When a load is still in flight while the next interval tick       *)
(* starts another load of the same data, then once both have resolved the  *)
(* data shown is that of the load started later: an older response never   *)
(* overwrites a newer one.                                                 *)
(***************************************************************************)
InFlight(loader) ==
  \/ \E req \in requests : req.loader = loader
  \/ loader = "loadLocalIntelligence" /\ settledParts # {}

C24_LatestCycleShown ==
  phase = "mounted" =>
    \A slot \in SlotsOf(component) :
      ~InFlight(LoaderOfSlot(slot)) => display[slot].cycle = started[LoaderOfSlot(slot)]

\* C24 for loads that do not overlap: a response that arrives while no
\* other load of the same data is in flight is the one shown afterwards.
C24_LatestShownWithoutOverlap ==
  [][\A slot \in SlotsOf(component) :
       LET loader == LoaderOfSlot(slot) IN
       (/\ phase' = "mounted"
        /\ InFlight(loader) /\ ~InFlight(loader)'
        /\ \A req \in requests : req.loader = loader => req.cycle = started[loader])
         => display'[slot].cycle = started[loader]]_vars


(***************************************************************************)
(* C29.  fetchTopStory returns null when neither source yields an item,    *)
(* and otherwise the most recent story: the one with the greatest          *)
(* timestamp among the articles and announcements the endpoints returned.  *)
(* It is stated here for the calls that favour it most: both endpoints     *)
(* answer with a list, every date parses, and the articles come newest     *)
(* first, as /api/lake-expo-news orders them.                              *)
(***************************************************************************)
TopStoryCallDone == fxCall.fn = "fetchTopStory" /\ fxResult # PendingPromise

SourcesAnsweredInOrder ==
  /\ AnsweredValidly(fxCall.a)
  /\ AnsweredValidly(fxCall.b)
  /\ AllDatesParse(fxCall.a.items)
  /\ AllDatesParse(fxCall.b.items)
  /\ NewestFirst(fxCall.a.items)

C29_TopStoryIsMostRecent ==
  (TopStoryCallDone /\ SourcesAnsweredInOrder) =>
    IF ItemsRead = {} THEN fxResult.value = <<>>
    ELSE /\ Len(fxResult.value) = 1
         /\ \A item \in ItemsRead :
               PublishedTime(item).t <= DateParse(fxResult.value[1].timestamp, tzOffset).t

\* C29, what the code returns in those calls: the newer of the first
\* article and the first announcement.
C29_TopStoryIsNewerOfFirstItems ==
  (TopStoryCallDone /\ SourcesAnsweredInOrder) =>
    LET firsts == (IF Len(fxCall.a.items) > 0 THEN {fxCall.a.items[1]} ELSE {})
                  \cup (IF Len(fxCall.b.items) > 0 THEN {fxCall.b.items[1]} ELSE {})
    IN IF firsts = {} THEN fxResult.value = <<>>
       ELSE /\ Len(fxResult.value) = 1
            /\ \E item \in firsts : item.id = fxResult.value[1].id
            /\ \A item \in firsts :
                  PublishedTime(item).t <= DateParse(fxResult.value[1].timestamp, tzOffset).t


(***************************************************************************)
(* C30.  Within one list that /api/lake-expo-news or                       *)
(* /api/city-announcements returns no two items have the same id, and an   *)
(* item has the same id when the unchanged page is scraped again later.    *)
(***************************************************************************)
NoTwoWithSameId(items) ==
  \A i, j \in 1..Len(items) : i # j => items[i].id # items[j].id

\* The list the endpoint returns for the same upstream pages one minute on.
ReturnedNewsLater ==
  IF apiCall.endpoint = "/api/lake-expo-news"
    THEN LakeExpoNewsGET(apiCall.a, apiCall.b, Now + 1, tzOffset).body.articles
    ELSE CityAnnouncementsGET(apiCall.a, Now + 1).body.announcements

SameIdsLater ==
  \A i \in 1..Len(ReturnedNews) :
    \E j \in 1..Len(ReturnedNewsLater) :
      /\ ReturnedNewsLater[j].url = ReturnedNews[i].url
      /\ ReturnedNewsLater[j].title = ReturnedNews[i].title
      /\ ReturnedNewsLater[j].id = ReturnedNews[i].id

C30_IdsUniqueAndStable ==
  (ApiAnswered /\ IsNewsEndpoint) => (NoTwoWithSameId(ReturnedNews) /\ SameIdsLater)

\* The two halves of C30, each of which fails on its own.
C30_IdsUnique == (ApiAnswered /\ IsNewsEndpoint) => NoTwoWithSameId(ReturnedNews)

C30_IdsStable == (ApiAnswered /\ IsNewsEndpoint) => SameIdsLater

=============================================================================
